---------------------------- MODULE Spec2Model ----------------------------
(***************************************************************************)
(* Metro bus route planner: the schedule cache (route_parser.py), the stop *)
(* directory's alias table (stops_database.py) and the planner             *)
(* (route_planner.py).                                                     *)
(*                                                                         *)
(* Text that the code inspects character by character (schedule lines and  *)
(* what is cut out of them, stop names in requests) is a sequence of       *)
(* one-character strings, so that str.lower(), str.startswith(),           *)
(* str.split() and the regular expressions are computed, not assumed.      *)
(* Route keys are plain strings.  A wall clock time (datetime.time) is its *)
(* number of seconds since midnight.                                       *)
(***************************************************************************)
EXTENDS Integers, Sequences, FiniteSets, TLC

VARIABLES
    schedule_file,  \* the file at json_file_path: Some(its route blocks, each
                    \* [route_key, lines]), Nothing when it cannot be read
    routes_cache,   \* RouteParser.routes_cache: the dict, in insertion order
    request,        \* Some(the RoutePlanningRequest of the last plan_route
                    \* call), Nothing before the first call
    result,         \* the list plan_route returned to that call
    result_keys,    \* history: the route key each returned plan was built from
    calls,          \* history: how many calls in a row had that request
    file_reads,     \* history: how often load_all_routes opened the file
    argument,       \* the argument of a function called on its own
    returned,       \* Some(what the last such call or load_all_routes
                    \* returned), Nothing before
    stations,       \* StopsDatabase.stations: the dict, in insertion order
    blue_records,   \* the Blue Line shapefile: Some(its records), Nothing
                    \* when there is none
    stop_loads,     \* history: how often load_stops has run
    handlers,       \* the requests being served: where each handler stands
    running         \* Some(the handler the event loop is executing), Nothing
                    \* between handlers

planner_vars == <<request, result, result_keys, calls>>

helper_vars == <<argument, returned>>

directory_vars == <<stations, blue_records, stop_loads>>

loop_vars == <<handlers, running>>

vars ==
    <<schedule_file, routes_cache, file_reads, planner_vars, helper_vars,
      directory_vars, loop_vars>>

\* Python's None for a metro line (a string here)
None == "None"

\* An Optional value of another type: Nothing for None, Some(x) for x
Nothing == <<>>

Some(x) == <<x>>

Get(opt) == opt[1]

(***************************************************************************)
(* Text                                                                    *)
(***************************************************************************)
UpperLetters ==
    <<"A","B","C","D","E","F","G","H","I","J","K","L","M",
      "N","O","P","Q","R","S","T","U","V","W","X","Y","Z">>

LowerLetters ==
    <<"a","b","c","d","e","f","g","h","i","j","k","l","m",
      "n","o","p","q","r","s","t","u","v","w","x","y","z">>

\* the lower-case letter of every upper-case letter
LowerOf ==
    [c \in {UpperLetters[i] : i \in DOMAIN UpperLetters} |->
        LowerLetters[CHOOSE i \in DOMAIN UpperLetters : UpperLetters[i] = c]]

\* str.lower() on one character: every other character is kept
LowerChar(c) == IF c \in DOMAIN LowerOf THEN LowerOf[c] ELSE c

\* str.lower()
lower(s) == [i \in 1..Len(s) |-> LowerChar(s[i])]

\* str.startswith()
startswith(s, prefix) ==
    /\ Len(s) >= Len(prefix)
    /\ SubSeq(s, 1, Len(prefix)) = prefix

(***************************************************************************)
(* Stop directory: the Blue Line alias table                               *)
(***************************************************************************)
\* shapefile (survey) name -> schedule name, as <<key, value>> pairs
blue_line_stop_mapping ==
    << <<<<"G","U","L","B","E","R","G">>,
         <<"G","u","l","b","e","r","g">>>>,
       <<<<"K","O","R","A","L"," ","C","H","O","W","K">>,
         <<"K","o","r","a","l"," ","T","o","w","n">>>>,
       <<<<"G","A","N","G","A","L">>,
         <<"G","a","n","g","a","l">>>>,
       <<<<"F","A","Z","A","I","A">>,
         <<"F","a","z","a","i","a">>>>,
       <<<<"K","H","A","N","N","A"," ","P","U","L">>,
         <<"K","h","a","n","n","a"," ","P","u","l">>>>,
       <<<<"Z","I","A"," ","M","A","S","J","I","D">>,
         <<"Z","i","a"," ","M","a","s","j","i","d">>>>,
       <<<<"K","U","R","I"," ","R","O","A","D">>,
         <<"K","u","r","i"," ","R","o","a","d">>>>,
       <<<<"I","Q","B","A","L"," ","T","O","W","N">>,
         <<"I","q","b","a","l"," ","T","o","w","n">>>>,
       <<<<"D","H","O","K","E"," ","K","A","L","A"," ","K","H","A","N">>,
         <<"D","h","o","k"," ","K","a","l","a"," ","K","h","a","n">>>>,
       <<<<"S","O","H","A","N">>,
         <<"S","o","h","a","n">>>>,
       <<<<"P","A","R","A","D","E"," ","G","R","O","U","N","D">>,
         <<"P","a","r","a","d","e"," ","G","r","o","u","n","d">>>>,
       <<<<"S","H","A","K","A","R","P","A","R","I","A","N">>,
         <<"S","h","a","k","a","r","p","a","r","i","a","n">>>>,
       <<<<"G","-","7"," ","/"," ","G","-","8">>,
         <<"G","-","8"," ","M","a","r","k","a","z">>>>,
       <<<<"C","H","I","L","D","R","E","N"," ","H","O","S","P","I","T","A","L">>,
         <<"C","h","i","l","d","r","e","n"," ","H","o","s","p","i","t","a","l">>>>,
       <<<<"P","I","M","S"," ","G","A","T","E">>,
         <<"P","I","M","S"," ","H","o","s","p","i","t","a","l">>>>,
       <<<<"P","I","M","S"," ","S","T","A","T","I","O","N">>,
         <<"P","I","M","S"," ","M","e","t","r","o"," ","S","t","a","t","i","o","n">>>> >>

\* StopsDatabase.map_stop_name_for_routes: the dict lookup is case-sensitive
map_stop_name_for_routes(stop_name, line_code) ==
    IF /\ line_code = "BLUE"
       /\ \E i \in DOMAIN blue_line_stop_mapping :
              blue_line_stop_mapping[i][1] = stop_name
    THEN blue_line_stop_mapping[
             CHOOSE i \in DOMAIN blue_line_stop_mapping :
                 blue_line_stop_mapping[i][1] = stop_name][2]
    ELSE stop_name

\* line 53: {v: k for k, v in blue_line_stop_mapping.items()}, as <<key,
\* value>> pairs.  A dict holds a key once, at the place of its first
\* insertion and with the value of its last.
blue_line_reverse_mapping ==
    LET items == blue_line_stop_mapping
        first == SelectSeq([i \in DOMAIN items |-> i],
                           LAMBDA i : \A j \in 1..(i - 1) :
                                          items[j][2] # items[i][2])
        last(v) == CHOOSE i \in DOMAIN items :
                       /\ items[i][2] = v
                       /\ \A j \in (i + 1)..Len(items) : items[j][2] # v
    IN  [n \in DOMAIN first |->
            <<items[first[n]][2], items[last(items[first[n]][2])][1]>>]

\* mutant: the reverse table is used for every line
map_stop_name_for_display_any_line(stop_name, line_code) ==
    IF \E i \in DOMAIN blue_line_reverse_mapping :
           blue_line_reverse_mapping[i][1] = stop_name
    THEN blue_line_reverse_mapping[
             CHOOSE i \in DOMAIN blue_line_reverse_mapping :
                 blue_line_reverse_mapping[i][1] = stop_name][2]
    ELSE stop_name

\* StopsDatabase.map_stop_name_for_display
map_stop_name_for_display(stop_name, line_code) ==
    IF /\ line_code = "BLUE"
       /\ \E i \in DOMAIN blue_line_reverse_mapping :
              blue_line_reverse_mapping[i][1] = stop_name
    THEN blue_line_reverse_mapping[
             CHOOSE i \in DOMAIN blue_line_reverse_mapping :
                 blue_line_reverse_mapping[i][1] = stop_name][2]
    ELSE stop_name

(***************************************************************************)
(* Time helpers (route_planner.py)                                         *)
(***************************************************************************)
SecondsPerDay == 24 * 60 * 60

Time(h, m, s) == (h * 60 + m) * 60 + s

\* mutant: the later time is not moved to the next day
minutes_forward_same_day(from_time, to_time) == (to_time - from_time) \div 60

\* RoutePlanner.minutes_forward.  Both operands are put on the same calendar
\* day (datetime.today()); the later one is moved to the next day when it is
\* earlier; the difference is floored to whole minutes.
minutes_forward(from_time, to_time) ==
    LET dt1 == from_time
        dt2 == IF to_time < from_time THEN to_time + SecondsPerDay ELSE to_time
    IN  (dt2 - dt1) \div 60

\* mutant: the forward distance alone
circular_abs_minutes_forward(t1, t2) == minutes_forward(t1, t2)

\* RoutePlanner.circular_abs_minutes
circular_abs_minutes(t1, t2) ==
    LET fwd == minutes_forward(t1, t2)
        bwd == minutes_forward(t2, t1)
    IN  IF fwd <= bwd THEN fwd ELSE bwd

\* RoutePlanner.calculate_time_difference
calculate_time_difference(time1, time2) == minutes_forward(time1, time2)

Min(a, b) == IF a < b THEN a ELSE b

(***************************************************************************)
(* Data model (models.py).  A Stop is [name, arrival_time, departure_time, *)
(* sequence], a Trip [trip_id, start_time, stops], a Route [route_id,      *)
(* short_name, long_name, direction, total_trips, average_headway, trips]. *)
(* The cache is the sequence of its (route_key, route) items.              *)
(* RoutePlanningRequest.max_wait_time is read by no code and is left out.  *)
(***************************************************************************)
MetroLine == {"GREEN", "BLUE"}

Range(s) == {s[i] : i \in DOMAIN s}

(***************************************************************************)
(* Schedule text (route_parser.py).  A line of the schedule is a sequence  *)
(* of characters; the white space the lines here carry is the blank.       *)
(***************************************************************************)
DigitChars == <<"0","1","2","3","4","5","6","7","8","9">>

Digits == Range(DigitChars)

DigitValue ==
    [c \in Digits |-> (CHOOSE i \in DOMAIN DigitChars : DigitChars[i] = c) - 1]

Whitespace == {" "}

RECURSIVE lstrip(_)

lstrip(s) ==
    IF s # <<>> /\ Head(s) \in Whitespace THEN lstrip(Tail(s)) ELSE s

RECURSIVE rstrip(_)

rstrip(s) ==
    IF s # <<>> /\ s[Len(s)] \in Whitespace
    THEN rstrip(SubSeq(s, 1, Len(s) - 1))
    ELSE s

\* str.strip()
strip(s) == rstrip(lstrip(s))

\* the k-th smallest of a set of places
kth(places, k) ==
    CHOOSE i \in places : Cardinality({j \in places : j < i}) = k - 1

\* the places of s where a token begins
token_starts(s) ==
    {i \in DOMAIN s :
        /\ s[i] \notin Whitespace
        /\ i = 1 \/ s[i - 1] \in Whitespace}

\* the places of s where a token ends
token_ends(s) ==
    {i \in DOMAIN s :
        /\ s[i] \notin Whitespace
        /\ i = Len(s) \/ s[i + 1] \in Whitespace}

\* the tokens of s, which begin at starts and end at ends
tokens(s, starts, ends) ==
    [k \in 1..Cardinality(starts) |->
        SubSeq(s, kth(starts, k), kth(ends, k))]

\* str.split(): the tokens between runs of white space
split(s) == tokens(s, token_starts(s), token_ends(s))

RECURSIVE join(_)

\* ' '.join(parts)
join(parts) ==
    IF parts = <<>> THEN <<>>
    ELSE IF Len(parts) = 1 THEN parts[1]
    ELSE parts[1] \o <<" ">> \o join(Tail(parts))

\* sub in s
contains(s, sub) ==
    \E i \in 1..(Len(s) - Len(sub) + 1) : SubSeq(s, i, i + Len(sub) - 1) = sub

\* the pattern \d{2}:\d{2}:\d{2} matches s at position i
time_at(s, i) ==
    /\ Len(s) >= i + 7
    /\ s[i] \in Digits
    /\ s[i + 1] \in Digits
    /\ s[i + 2] = ":"
    /\ s[i + 3] \in Digits
    /\ s[i + 4] \in Digits
    /\ s[i + 5] = ":"
    /\ s[i + 6] \in Digits
    /\ s[i + 7] \in Digits

\* re.match(r'\d{2}:\d{2}:\d{2}', s): the pattern matches a prefix of s
match_time(s) == time_at(s, 1)

RECURSIVE run(_, _, _)

\* how many characters of s from position i on are in class
run(s, i, class) ==
    IF i <= Len(s) /\ s[i] \in class THEN 1 + run(s, i + 1, class) ELSE 0

\* re.match(r'\d+-\d+\s+\d{2}:\d{2}:\d{2}', s): digits, a dash, digits, white
\* space and a time, from the start of s
match_trip_start(s) ==
    LET a == run(s, 1, Digits)
        b == run(s, a + 2, Digits)
        w == run(s, a + b + 2, Whitespace)
    IN  /\ a >= 1
        /\ Len(s) >= a + 1
        /\ s[a + 1] = "-"
        /\ b >= 1
        /\ w >= 1
        /\ time_at(s, a + b + w + 2)

RECURSIVE number(_)

\* the value of a run of decimal digits
number(s) ==
    IF s = <<>> THEN 0
    ELSE number(SubSeq(s, 1, Len(s) - 1)) * 10 + DigitValue[s[Len(s)]]

\* the places where the fields of s end: its colons, and the two ends of s
field_ends(s) == {0, Len(s) + 1} \cup {i \in DOMAIN s : s[i] = ":"}

\* the texts of s between one of the ends and the next
fields_between(s, ends) ==
    [k \in 1..(Cardinality(ends) - 1) |->
        SubSeq(s, kth(ends, k) + 1, kth(ends, k + 1) - 1)]

\* s.split(':'): the texts between the colons of s
colon_fields(s) == fields_between(s, field_ends(s))

\* a strptime directive (%H, %M, %S) takes one or two digits whose value is at
\* most largest
directive_matches(text, largest) ==
    /\ Len(text) \in {1, 2}
    /\ \A i \in DOMAIN text : text[i] \in Digits
    /\ number(text) <= largest

\* datetime.strptime(s, "%H:%M:%S").time(): Some(time), Nothing on ValueError.
\* %S takes up to 61, and the datetime constructor refuses a second above 59.
strptime_hms(s) ==
    LET fields == colon_fields(s)
    IN  IF /\ Len(fields) = 3
           /\ directive_matches(fields[1], 23)
           /\ directive_matches(fields[2], 59)
           /\ directive_matches(fields[3], 61)
           /\ number(fields[3]) <= 59
        THEN Some(Time(number(fields[1]), number(fields[2]),
                       number(fields[3])))
        ELSE Nothing

\* datetime.strptime(s, "%H:%M").time(): Some(time), Nothing on ValueError
strptime_hm(s) ==
    LET fields == colon_fields(s)
    IN  IF /\ Len(fields) = 2
           /\ directive_matches(fields[1], 23)
           /\ directive_matches(fields[2], 59)
        THEN Some(Time(number(fields[1]), number(fields[2]), 0))
        ELSE Nothing

\* mutant: the HH:MM form is not tried
parse_time_seconds_only(time_str) ==
    LET hms == strptime_hms(strip(time_str))
    IN  IF hms # Nothing THEN Get(hms) ELSE Time(0, 0, 0)

\* RouteParser.parse_time
parse_time(time_str) ==
    LET hms == strptime_hms(strip(time_str))
        hm == strptime_hm(strip(time_str))
    IN  IF hms # Nothing THEN Get(hms)
        ELSE IF hm # Nothing THEN Get(hm)
        ELSE Time(0, 0, 0)

\* int(text), of a text without underscores: Some(value), Nothing on
\* ValueError
int(text) ==
    LET signed == text # <<>> /\ text[1] \in {"+", "-"}
        body == IF signed THEN Tail(text) ELSE text
    IN  IF body # <<>> /\ \A i \in DOMAIN body : body[i] \in Digits
        THEN Some(IF signed /\ text[1] = "-" THEN 0 - number(body)
                  ELSE number(body))
        ELSE Nothing

\* line.split(key)[-1].strip(): the text after the last key in line
value_after(line, key) ==
    LET at == CHOOSE i \in 1..(Len(line) - Len(key) + 1) :
                  /\ SubSeq(line, i, i + Len(key) - 1) = key
                  /\ \A j \in (i + 1)..(Len(line) - Len(key) + 1) :
                         SubSeq(line, j, j + Len(key) - 1) # key
    IN  strip(SubSeq(line, at + Len(key), Len(line)))

RouteIdKey == <<"R","o","u","t","e"," ","I","D">>

ShortNameKey == <<"S","h","o","r","t"," ","N","a","m","e">>

LongNameKey == <<"L","o","n","g"," ","N","a","m","e">>

DirectionKey == <<"D","i","r","e","c","t","i","o","n">>

TotalTripsKey == <<"T","o","t","a","l"," ","T","r","i","p","s">>

AverageHeadwayKey ==
    <<"A","v","e","r","a","g","e"," ","H","e","a","d","w","a","y"," ","(","m",
      "i","n",")">>

StopNameWord == <<"s","t","o","p","_","n","a","m","e">>

ForwardText == <<"F","o","r","w","a","r","d">>

BackwardText == <<"B","a","c","k","w","a","r","d">>

\* info = {}: a key the dict lacks is Nothing
NoInfo ==
    [route_id |-> Nothing, short_name |-> Nothing, long_name |-> Nothing,
     direction |-> Nothing, total_trips |-> Nothing,
     average_headway |-> Nothing]

\* lines 28-40: what one line adds to info; Nothing when int() raises
read_info(info, line) ==
    IF contains(line, RouteIdKey)
    THEN Some([info EXCEPT
                   !.route_id = Some(value_after(line, RouteIdKey))])
    ELSE IF contains(line, ShortNameKey)
    THEN Some([info EXCEPT
                   !.short_name = Some(value_after(line, ShortNameKey))])
    ELSE IF contains(line, LongNameKey)
    THEN Some([info EXCEPT
                   !.long_name = Some(value_after(line, LongNameKey))])
    ELSE IF contains(line, DirectionKey)
    THEN Some([info EXCEPT
                   !.direction = Some(value_after(line, DirectionKey))])
    ELSE IF contains(line, TotalTripsKey)
    THEN IF int(value_after(line, TotalTripsKey)) = Nothing THEN Nothing
         ELSE Some([info EXCEPT
                        !.total_trips =
                            int(value_after(line, TotalTripsKey))])
    ELSE IF contains(line, AverageHeadwayKey)
    THEN IF int(value_after(line, AverageHeadwayKey)) = Nothing THEN Nothing
         ELSE Some([info EXCEPT
                        !.average_headway =
                            int(value_after(line, AverageHeadwayKey))])
    ELSE Some(info)

RECURSIVE read_infos(_, _)

read_infos(info, lines) ==
    IF lines = <<>> THEN Some(info)
    ELSE IF read_info(info, Head(lines)) = Nothing THEN Nothing
    ELSE read_infos(Get(read_info(info, Head(lines))), Tail(lines))

\* RouteParser.extract_route_info_from_lines: Some(info), Nothing when it
\* raises ValueError
extract_route_info_from_lines(lines) == read_infos(NoInfo, lines)

\* mutant: the stops of a trip are numbered from 0
next_sequence_from_zero(current_stops) == Len(current_stops)

\* line 100: the sequence of the stop about to be appended
next_sequence(current_stops) == Len(current_stops) + 1

\* lines 82-102: a line whose last two tokens start as times adds a stop
read_stop(parts, current_stops) ==
    IF /\ Len(parts) >= 3
       /\ match_time(parts[Len(parts) - 1])
       /\ match_time(parts[Len(parts)])
    THEN Append(current_stops,
                [name |-> join(SubSeq(parts, 1, Len(parts) - 2)),
                 arrival_time |-> parse_time(parts[Len(parts) - 1]),
                 departure_time |-> parse_time(parts[Len(parts)]),
                 sequence |-> next_sequence(current_stops)])
    ELSE current_stops

RECURSIVE read_stops(_, _, _)

\* lines 74-104: the stops of one trip block, from line i up to the next trip
\* start or the end; i is returned with them
read_stops(lines, i, current_stops) ==
    IF i > Len(lines) \/ match_trip_start(strip(lines[i]))
    THEN [i |-> i, current_stops |-> current_stops]
    ELSE read_stops(lines, i + 1,
                    read_stop(split(strip(lines[i])), current_stops))

\* mutant: a started trip is kept, with or without stops
save_trip_also_empty(trips, current_trip, current_stops) ==
    IF current_trip # Nothing
    THEN Append(trips, [Get(current_trip) EXCEPT !.stops = current_stops])
    ELSE trips

\* lines 57-59 and 112-114: a started trip that has stops is kept
save_trip(trips, current_trip, current_stops) ==
    IF current_trip # Nothing /\ current_stops # <<>>
    THEN Append(trips, [Get(current_trip) EXCEPT !.stops = current_stops])
    ELSE trips

\* lines 62-65
start_trip(parts) ==
    [trip_id |-> parts[1], start_time |-> parse_time(parts[2]), stops |-> <<>>]

RECURSIVE read_trips(_, _, _, _, _)

\* lines 51-114: the loop over the lines, from line i on
read_trips(lines, i, trips, current_trip, current_stops) ==
    IF i > Len(lines) THEN save_trip(trips, current_trip, current_stops)
    ELSE IF match_trip_start(strip(lines[i]))
    THEN LET after_header ==
                 IF i + 1 <= Len(lines) /\ contains(lines[i + 1], StopNameWord)
                 THEN i + 2
                 ELSE i + 1
             block == read_stops(lines, after_header, <<>>)
         IN  read_trips(lines, block.i,
                        save_trip(trips, current_trip, current_stops),
                        Some(start_trip(split(strip(lines[i])))),
                        block.current_stops)
    ELSE read_trips(lines, i + 1, trips, current_trip, current_stops)

\* RouteParser.extract_trips_from_lines
extract_trips_from_lines(lines) == read_trips(lines, 1, <<>>, Nothing, <<>>)

\* Direction(value): Some(member), Nothing on ValueError
Direction(value) ==
    IF value = ForwardText THEN Some("Forward")
    ELSE IF value = BackwardText THEN Some("Backward")
    ELSE Nothing

\* dict.get(key, default)
get(entry, default) == IF entry = Nothing THEN default ELSE Get(entry)

\* RouteParser.parse_route_from_json, on route_data['lines']: Some(route),
\* Nothing for None
parse_route_from_json(lines) ==
    LET route_info == extract_route_info_from_lines(lines)
    IN  IF route_info = Nothing THEN Nothing
        ELSE IF Get(route_info) = NoInfo THEN Nothing
        ELSE IF Direction(get(Get(route_info).direction, ForwardText))
                    = Nothing
        THEN Nothing
        ELSE Some([route_id |-> get(Get(route_info).route_id, <<>>),
                   short_name |-> get(Get(route_info).short_name, <<>>),
                   long_name |-> get(Get(route_info).long_name, <<>>),
                   direction |->
                       Get(Direction(get(Get(route_info).direction,
                                         ForwardText))),
                   total_trips |-> get(Get(route_info).total_trips, 0),
                   average_headway |->
                       get(Get(route_info).average_headway, 60),
                   trips |-> extract_trips_from_lines(lines)])

RECURSIVE load_routes_until_failure(_, _)

\* mutant: the first route that does not parse ends the load
load_routes_until_failure(cache, routes_data) ==
    IF routes_data = <<>> THEN cache
    ELSE IF parse_route_from_json(Head(routes_data).lines) = Nothing
    THEN cache
    ELSE load_routes_until_failure(
             Append(cache,
                    [route_key |-> Head(routes_data).route_key,
                     route |-> Get(parse_route_from_json(
                                       Head(routes_data).lines))]),
             Tail(routes_data))

RECURSIVE load_routes(_, _)

\* lines 157-160: the routes that parse are put in the cache under their keys
load_routes(cache, routes_data) ==
    IF routes_data = <<>> THEN cache
    ELSE load_routes(
             IF parse_route_from_json(Head(routes_data).lines) = Nothing
             THEN cache
             ELSE Append(cache,
                         [route_key |-> Head(routes_data).route_key,
                          route |-> Get(parse_route_from_json(
                                            Head(routes_data).lines))]),
             Tail(routes_data))

\* mutant: every call reads the file and replaces the cache
load_all_routes_reloading(cache, file) ==
    IF file = Nothing THEN cache ELSE load_routes(<<>>, Get(file))

\* RouteParser.load_all_routes, as the cache it leaves: a populated cache
\* is kept; a file that cannot be read (file = Nothing) leaves it empty
load_all_routes(cache, file) ==
    IF cache # <<>> THEN cache
    ELSE IF file = Nothing THEN cache
    ELSE load_routes(cache, Get(file))

\* The dict load_all_routes returns, after reads earlier reads of the file:
\* the cache object itself (instance 0, lines 151 and 164) or, when the file
\* cannot be read, a new empty dict (line 168; its instance is the number of
\* the read that failed)
load_all_routes_returns(cache, file, reads) ==
    IF cache = <<>> /\ file = Nothing
    THEN [instance |-> reads + 1, mapping |-> <<>>]
    ELSE [instance |-> 0, mapping |-> load_all_routes(cache, file)]

(***************************************************************************)
(* RouteParser.find_routes_between_stops                                   *)
(***************************************************************************)
\* the four locals of the loop over trip.stops
NotFound ==
    [origin_found |-> FALSE, destination_found |-> FALSE,
     origin_sequence |-> -1, destination_sequence |-> -1]

\* One iteration of "for stop in trip.stops" (lines 213-235).
scan_stop(st, stop, origin, destination) ==
    LET stop_name_lower == lower(stop.name)
        exact ==
            IF stop_name_lower = lower(origin)
            THEN [st EXCEPT !.origin_found = TRUE,
                            !.origin_sequence = stop.sequence]
            ELSE IF stop_name_lower = lower(destination)
            THEN [st EXCEPT !.destination_found = TRUE,
                            !.destination_sequence = stop.sequence]
            ELSE st
        mapped_origin == map_stop_name_for_routes(origin, "BLUE")
        aliasO ==
            IF /\ ~exact.origin_found
               /\ stop_name_lower = lower(mapped_origin)
            THEN [exact EXCEPT !.origin_found = TRUE,
                               !.origin_sequence = stop.sequence]
            ELSE exact
        mapped_destination == map_stop_name_for_routes(destination, "BLUE")
        aliasD ==
            IF /\ ~aliasO.destination_found
               /\ stop_name_lower = lower(mapped_destination)
            THEN [aliasO EXCEPT !.destination_found = TRUE,
                                !.destination_sequence = stop.sequence]
            ELSE aliasO
    IN  aliasD

RECURSIVE scan_stops(_, _, _, _)
\* the loop over trip.stops, from the locals st onward
scan_stops(st, stops, origin, destination) ==
    IF stops = <<>> THEN st
    ELSE scan_stops(scan_stop(st, Head(stops), origin, destination),
                    Tail(stops), origin, destination)

\* mutant: origin_found is not asked for
trip_connects_destination_only(trip, origin, destination) ==
    LET st == scan_stops(NotFound, trip.stops, origin, destination)
    IN  /\ st.destination_found
        /\ st.origin_sequence < st.destination_sequence

\* mutant: "<=" for "<"
trip_connects_or_equal(trip, origin, destination) ==
    LET st == scan_stops(NotFound, trip.stops, origin, destination)
    IN  /\ st.origin_found
        /\ st.destination_found
        /\ st.origin_sequence <= st.destination_sequence

\* lines 237-240: both found and the origin before the destination
trip_connects(trip, origin, destination) ==
    LET st == scan_stops(NotFound, trip.stops, origin, destination)
    IN  /\ st.origin_found
        /\ st.destination_found
        /\ st.origin_sequence < st.destination_sequence

\* lines 207-244: route_connects (the break only ends the search early)
route_connects(route, origin, destination) ==
    \E i \in DOMAIN route.trips :
        trip_connects(route.trips[i], origin, destination)

\* the cache items are visited, and appended, in the dict's order
find_routes_between_stops(routes, origin, destination) ==
    SelectSeq(routes,
              LAMBDA item : route_connects(item.route, origin, destination))

(***************************************************************************)
(* RoutePlanner: line classification and filtering                         *)
(***************************************************************************)
\* mutant: the prefixes are compared without their hyphen
_classify_route_line_no_hyphen(route_short_name) ==
    IF startswith(route_short_name, <<"F","R","G">>) THEN "GREEN"
    ELSE IF startswith(route_short_name, <<"F","R">>) THEN "BLUE"
    ELSE "UNKNOWN"

\* mutant: the prefixes are compared without regard to letter case
_classify_route_line_nocase(route_short_name) ==
    IF startswith(lower(route_short_name), <<"f","r","g","-">>) THEN "GREEN"
    ELSE IF startswith(lower(route_short_name), <<"f","r","-">>) THEN "BLUE"
    ELSE "UNKNOWN"

_classify_route_line(route_short_name) ==
    IF startswith(route_short_name, <<"F","R","G","-">>) THEN "GREEN"
    ELSE IF startswith(route_short_name, <<"F","R","-">>) THEN "BLUE"
    ELSE "UNKNOWN"

_filter_routes_by_line(routes, metro_line) ==
    IF metro_line = None THEN routes
    ELSE SelectSeq(routes,
             LAMBDA item :
                 _classify_route_line(item.route.short_name) = metro_line)

(***************************************************************************)
(* RoutePlanner.find_best_trip                                             *)
(***************************************************************************)
RECURSIVE last_match(_, _, _, _)
\* lines 74-78: the loop keeps the last stop whose name equals origin
\* (role "origin"); a stop is compared with destination only when it does
\* not equal origin (elif).  Nothing when no stop was assigned.
last_match(stops, role, origin, destination) ==
    IF stops = <<>> THEN Nothing
    ELSE LET stop == stops[Len(stops)]
             isOrigin == lower(stop.name) = lower(origin)
             isDestination ==
                 ~isOrigin /\ lower(stop.name) = lower(destination)
         IN  IF (role = "origin" /\ isOrigin)
                \/ (role = "destination" /\ isDestination)
             THEN Some(stop)
             ELSE last_match(SubSeq(stops, 1, Len(stops) - 1),
                             role, origin, destination)

\* mutant: the wait is the forward distance only, not the nearer of the two
trip_score_forward_only(origin_stop, destination_stop, preferred_time) ==
    LET journey_time ==
            calculate_time_difference(origin_stop.departure_time,
                                      destination_stop.arrival_time)
    IN  IF preferred_time # Nothing
        THEN <<calculate_time_difference(Get(preferred_time),
                                         origin_stop.departure_time),
               journey_time>>
        ELSE <<calculate_time_difference(Time(6, 0, 0),
                                         origin_stop.departure_time),
               journey_time>>

\* mutant: without preferred_time the wait counts from midnight
trip_score_from_midnight(origin_stop, destination_stop, preferred_time) ==
    IF preferred_time # Nothing
    THEN <<Min(calculate_time_difference(Get(preferred_time),
                                         origin_stop.departure_time),
               calculate_time_difference(origin_stop.departure_time,
                                         Get(preferred_time))),
           calculate_time_difference(origin_stop.departure_time,
                                     destination_stop.arrival_time)>>
    ELSE <<calculate_time_difference(Time(0, 0, 0),
                                     origin_stop.departure_time),
           calculate_time_difference(origin_stop.departure_time,
                                     destination_stop.arrival_time)>>

\* lines 86-95: the score tuple of a trip; preferred_time is Optional
trip_score(origin_stop, destination_stop, preferred_time) ==
    LET journey_time ==
            calculate_time_difference(origin_stop.departure_time,
                                      destination_stop.arrival_time)
    IN  IF preferred_time # Nothing
        THEN LET fwd == calculate_time_difference(Get(preferred_time),
                                                  origin_stop.departure_time)
                 bwd == calculate_time_difference(origin_stop.departure_time,
                                                  Get(preferred_time))
             IN  <<Min(fwd, bwd), journey_time>>
        ELSE <<calculate_time_difference(Time(6, 0, 0),
                                         origin_stop.departure_time),
               journey_time>>

\* mutant: "<=" on two 2-tuples of integers
tuple_less_or_equal(a, b) == a[1] < b[1] \/ (a[1] = b[1] /\ a[2] <= b[2])

\* Python's "<" on two 2-tuples of integers
tuple_less(a, b) == a[1] < b[1] \/ (a[1] = b[1] /\ a[2] < b[2])

\* lines 60-67: nothing chosen yet; score Nothing stands for (inf, inf)
NoBest == [trip |-> Nothing, origin_stop |-> Nothing,
           destination_stop |-> Nothing, score |-> Nothing]

\* mutant: the order of the two stops in the trip is not looked at
consider_trip_any_order(best, trip, origin, destination, preferred_time) ==
    LET origin_stop == last_match(trip.stops, "origin", origin, destination)
        destination_stop ==
            last_match(trip.stops, "destination", origin, destination)
    IN  IF origin_stop # Nothing /\ destination_stop # Nothing
        THEN LET score == trip_score(Get(origin_stop), Get(destination_stop),
                                     preferred_time)
             IN  IF best.score = Nothing \/ tuple_less(score, best.score)
                 THEN [trip |-> Some(trip), origin_stop |-> origin_stop,
                       destination_stop |-> destination_stop,
                       score |-> score]
                 ELSE best
        ELSE best

\* One iteration of "for trip in route.trips" (lines 69-101).
consider_trip(best, trip, origin, destination, preferred_time) ==
    LET origin_stop == last_match(trip.stops, "origin", origin, destination)
        destination_stop ==
            last_match(trip.stops, "destination", origin, destination)
    IN  IF /\ origin_stop # Nothing
           /\ destination_stop # Nothing
           /\ Get(origin_stop).sequence < Get(destination_stop).sequence
        THEN LET score == trip_score(Get(origin_stop), Get(destination_stop),
                                     preferred_time)
             IN  IF best.score = Nothing \/ tuple_less(score, best.score)
                 THEN [trip |-> Some(trip), origin_stop |-> origin_stop,
                       destination_stop |-> destination_stop,
                       score |-> score]
                 ELSE best
        ELSE best

RECURSIVE best_over(_, _, _, _, _)
\* the loop over route.trips, from the locals best onward
best_over(best, trips, origin, destination, preferred_time) ==
    IF trips = <<>> THEN best
    ELSE best_over(consider_trip(best, Head(trips), origin, destination,
                                 preferred_time),
                   Tail(trips), origin, destination, preferred_time)

\* Nothing, or Some of (best_trip, best_origin_stop, best_destination_stop)
find_best_trip(route, origin, destination, preferred_time) ==
    LET best == best_over(NoBest, route.trips, origin, destination,
                          preferred_time)
    IN  IF best.trip # Nothing
        THEN Some([trip |-> Get(best.trip),
                   origin_stop |-> Get(best.origin_stop),
                   destination_stop |-> Get(best.destination_stop)])
        ELSE Nothing

(***************************************************************************)
(* RoutePlanner.plan_route                                                 *)
(***************************************************************************)
\* time.strftime('%H:%M')
strftime_HM(t) == <<t \div 3600, (t \div 60) % 60>>

\* mutant: the wait is the forward distance from preferred_time to departure
build_plan_forward_wait(route, trip_info, req) ==
    LET origin_stop == trip_info.origin_stop
        destination_stop == trip_info.destination_stop
        journey_time ==
            calculate_time_difference(origin_stop.departure_time,
                                      destination_stop.arrival_time)
        wait_time ==
            IF req.preferred_time # Nothing
            THEN calculate_time_difference(Get(req.preferred_time),
                                           origin_stop.departure_time)
            ELSE 0
    IN  [origin |-> req.origin,
         destination |-> req.destination,
         total_duration |-> journey_time + wait_time,
         segments |->
             <<[route_name |-> route.short_name,
                direction |-> route.direction,
                trip_id |-> trip_info.trip.trip_id,
                start_stop |-> origin_stop.name,
                end_stop |-> destination_stop.name,
                departure_time |-> origin_stop.departure_time,
                arrival_time |-> destination_stop.arrival_time,
                duration_minutes |-> journey_time,
                metro_line |-> req.metro_line]>>,
         total_wait_time |-> wait_time,
         instructions |-> <<"Take", "Departure time", "Arrive at",
                            "Journey duration">>,
         metro_lines |-> IF req.metro_line # None
                         THEN <<req.metro_line>> ELSE <<>>]

\* lines 124-169: the RoutePlan built from one route's best trip.  An
\* instruction (an f-string) is the tuple of its literal and formatted parts.
build_plan(route, trip_info, req) ==
    LET trip == trip_info.trip
        origin_stop == trip_info.origin_stop
        destination_stop == trip_info.destination_stop
        journey_time ==
            calculate_time_difference(origin_stop.departure_time,
                                      destination_stop.arrival_time)
        segment ==
            [route_name |-> route.short_name,
             direction |-> route.direction,
             trip_id |-> trip.trip_id,
             start_stop |-> origin_stop.name,
             end_stop |-> destination_stop.name,
             departure_time |-> origin_stop.departure_time,
             arrival_time |-> destination_stop.arrival_time,
             duration_minutes |-> journey_time,
             metro_line |-> req.metro_line]
        instructions ==
            << <<"Take ", route.short_name, " (", route.long_name,
                 ") from ", origin_stop.name>>,
               <<"Departure time: ",
                 strftime_HM(origin_stop.departure_time)>>,
               <<"Arrive at ", destination_stop.name, " at ",
                 strftime_HM(destination_stop.arrival_time)>>,
               <<"Journey duration: ", journey_time, " minutes">> >>
        wait_time ==
            IF req.preferred_time # Nothing
            THEN Min(calculate_time_difference(Get(req.preferred_time),
                                               origin_stop.departure_time),
                     calculate_time_difference(origin_stop.departure_time,
                                               Get(req.preferred_time)))
            ELSE 0
    IN  [origin |-> req.origin,
         destination |-> req.destination,
         total_duration |-> journey_time + wait_time,
         segments |-> <<segment>>,
         total_wait_time |-> wait_time,
         instructions |-> instructions,
         metro_lines |-> IF req.metro_line # None
                         THEN <<req.metro_line>> ELSE <<>>]

RECURSIVE collect_plans(_, _)
\* lines 116-171: one (route_key, plan) per connecting route whose
\* find_best_trip is not None, in the routes' order
collect_plans(connecting_routes, req) ==
    IF connecting_routes = <<>> THEN <<>>
    ELSE LET item == Head(connecting_routes)
             trip_info == find_best_trip(item.route, req.origin,
                                         req.destination, req.preferred_time)
             rest == collect_plans(Tail(connecting_routes), req)
         IN  IF trip_info # Nothing
             THEN <<[route_key |-> item.route_key,
                     plan |-> build_plan(item.route, Get(trip_info), req)]>>
                  \o rest
             ELSE rest

\* mutant: total_duration is the key also when preferred_time is given
sort_key_total_duration(x, preferred_time) == <<x.plan.total_duration, 0>>

\* lines 176 and 179: the sort key; x.plan is a RoutePlan
sort_key(x, preferred_time) ==
    IF preferred_time # Nothing
    THEN <<x.plan.total_wait_time, x.plan.segments[1].duration_minutes>>
    ELSE <<x.plan.total_duration, 0>>

RECURSIVE insert_sorted(_, _, _)
\* x placed after the elements whose key is not greater: list.sort is stable
insert_sorted(sorted, x, preferred_time) ==
    IF sorted = <<>> THEN <<x>>
    ELSE IF tuple_less(sort_key(x, preferred_time),
                       sort_key(Head(sorted), preferred_time))
         THEN <<x>> \o sorted
         ELSE <<Head(sorted)>> \o insert_sorted(Tail(sorted), x, preferred_time)

RECURSIVE sort_plans(_, _)
\* route_plans.sort(key=...)
sort_plans(plans, preferred_time) ==
    IF plans = <<>> THEN <<>>
    ELSE insert_sorted(
             sort_plans(SubSeq(plans, 1, Len(plans) - 1), preferred_time),
             plans[Len(plans)], preferred_time)

\* mutant: no slice
first_five_uncut(plans) == plans

\* route_plans[:5]
first_five(plans) == SubSeq(plans, 1, Min(5, Len(plans)))

\* mutant: route_plans is not emptied between calls
plan_route_keyed_kept(routes, req) ==
    LET connecting_routes ==
            _filter_routes_by_line(
                find_routes_between_stops(routes, req.origin, req.destination),
                req.metro_line)
        kept == [i \in 1..Len(result) |->
                    [route_key |-> result_keys[i], plan |-> result[i]]]
        route_plans == kept \o collect_plans(connecting_routes, req)
    IN  first_five(sort_plans(route_plans, req.preferred_time))

\* plan_route with the route key kept beside each plan.  The cache is
\* populated, so load_all_routes returns it (lines 150-151).
plan_route_keyed(routes, req) ==
    LET connecting_routes ==
            _filter_routes_by_line(
                find_routes_between_stops(routes, req.origin, req.destination),
                req.metro_line)
        route_plans == collect_plans(connecting_routes, req)
    IN  first_five(sort_plans(route_plans, req.preferred_time))

plan_route(routes, req) ==
    LET keyed == plan_route_keyed(routes, req)
    IN  [i \in 1..Len(keyed) |-> keyed[i].plan]

(***************************************************************************)
(* Stop listing and search (RouteParser.get_all_stops and RoutePlanner)    *)
(***************************************************************************)
\* the characters of the schedule text in the order of their code points
CodePoints ==
    <<" ", "-">> \o DigitChars \o <<":">> \o UpperLetters \o <<"_">>
        \o LowerLetters

ord(c) == CHOOSE i \in DOMAIN CodePoints : CodePoints[i] = c

RECURSIVE str_less(_, _)

\* a < b on str
str_less(a, b) ==
    IF b = <<>> THEN FALSE
    ELSE IF a = <<>> THEN TRUE
    ELSE IF Head(a) = Head(b) THEN str_less(Tail(a), Tail(b))
    ELSE ord(Head(a)) < ord(Head(b))

\* the names in the order of below: the k-th has k - 1 names below it
in_order(names, below) ==
    [k \in 1..Cardinality(names) |->
        CHOOSE x \in names : Cardinality(below[x]) = k - 1]

\* sorted(list(names)) of a set of names
sorted(names) ==
    in_order(names, [x \in names |-> {y \in names : str_less(y, x)}])

\* the stop names of the trips of a route
stop_names(route) ==
    UNION {{route.trips[t].stops[s].name : s \in DOMAIN route.trips[t].stops} :
              t \in DOMAIN route.trips}

\* RouteParser.get_all_stops, over the routes load_all_routes() gives it
route_parser_get_all_stops(routes) ==
    sorted(UNION {stop_names(routes[i].route) : i \in DOMAIN routes})

\* RoutePlanner.get_all_stops
get_all_stops(routes, metro_line) ==
    IF metro_line = None THEN route_parser_get_all_stops(routes)
    ELSE sorted(UNION {stop_names(routes[i].route) :
                          i \in {k \in DOMAIN routes :
                                     _classify_route_line(
                                         routes[k].route.short_name)
                                         = metro_line}})

\* partial_matches[:10]
first_ten(stops) == SubSeq(stops, 1, Min(10, Len(stops)))

\* The three search_stops (route_planner.py 206-215, route_parser.py 185-194,
\* stops_database.py 187-196) have the same body and differ in all_stops.
\* exact_matches: the stops equal to the query but for letter case
exact_matches(all_stops, query_lower) ==
    SelectSeq(all_stops, LAMBDA stop : lower(stop) = query_lower)

\* mutant: every substring match is returned
ranked_matches_uncapped(all_stops, query_lower, exact) ==
    exact \o SelectSeq(all_stops,
                 LAMBDA stop :
                     /\ contains(lower(stop), query_lower)
                     /\ stop \notin Range(exact))

\* exact_matches + partial_matches[:10]
ranked_matches(all_stops, query_lower, exact) ==
    exact \o first_ten(SelectSeq(all_stops,
                           LAMBDA stop :
                               /\ contains(lower(stop), query_lower)
                               /\ stop \notin Range(exact)))

\* the body, from query_lower on
matching_stops(all_stops, query_lower) ==
    ranked_matches(all_stops, query_lower,
                   exact_matches(all_stops, query_lower))

\* RouteParser.search_stops, over the routes load_all_routes() gives it
route_parser_search_stops(routes, query) ==
    matching_stops(route_parser_get_all_stops(routes), lower(query))

\* RoutePlanner.search_stops over all_stops = get_all_stops(metro_line)
search_stops(all_stops, query) == matching_stops(all_stops, lower(query))

\* get_all_stops calls load_all_routes once (route_parser.py line 172) and,
\* with a metro_line, once more (route_planner.py line 192); each call on an
\* empty cache opens the file
listing_reads(cache, file, metro_line) ==
    IF cache # <<>> THEN 0
    ELSE IF metro_line # None /\ load_all_routes(cache, file) = <<>> THEN 2
    ELSE 1

(***************************************************************************)
(* Stop directory (stops_database.py).  A Station is [id, name, line_code, *)
(* is_interchange, coordinates, line_name]; line_code is the sequence of   *)
(* the tags its text joins with '/'.  self.stations is the sequence of its *)
(* values in insertion order.  The Green Line source is the schedule file; *)
(* the Blue Line source is the sequence of the shapefile's records, each   *)
(* [sta_name, id, interchg, points], or Nothing when there is no           *)
(* shapefile.                                                              *)
(***************************************************************************)
\* self.lines, of which the names are read
line_info ==
    [GREEN |-> [name |-> "Green Line"], BLUE |-> [name |-> "Blue Line"]]

FRG == <<"F","R","G","-">>

StopColumnsText ==
    <<"s","t","o","p","_","n","a","m","e"," ","a","r","r","i","v","a","l","_",
      "t","i","m","e"," ","d","e","p","a","r","t","u","r","e","_","t","i","m",
      "e">>

\* the position of the station called name, 0 when there is none
station_index(known, name) ==
    IF \E i \in DOMAIN known : known[i].name = name
    THEN CHOOSE i \in DOMAIN known : known[i].name = name
    ELSE 0

\* the existing station takes a further tag and becomes an interchange
merge_tag(known, i, line_code) ==
    [known EXCEPT ![i] = [@ EXCEPT !.line_code = @ \o <<line_code>>,
                                   !.is_interchange = TRUE]]

\* lines 119-123 and 161-166: a station of that name exists already
merge_line(known, i, line_code) ==
    IF known[i].line_code # <<line_code>>
    THEN merge_tag(known, i, line_code)
    ELSE known

\* lines 97-98: both tokens hold a colon and split at ':' in three
looks_like_times(time1, time2) ==
    /\ contains(time1, <<":">>)
    /\ contains(time2, <<":">>)
    /\ Len(colon_fields(time1)) = 3
    /\ Len(colon_fields(time2)) = 3

\* lines 101-123; load is [stations, stops_found, green_stops_loaded]
register_green(load, stop_name) ==
    IF stop_name = <<>> \/ stop_name \in load.stops_found THEN load
    ELSE IF station_index(load.stations, stop_name) = 0
    THEN [stations |->
              Append(load.stations,
                     [id |-> <<"GL", load.green_stops_loaded + 1>>,
                      name |-> stop_name,
                      line_code |-> <<"GREEN">>,
                      is_interchange |-> FALSE,
                      coordinates |-> <<0, 0>>,
                      line_name |-> line_info.GREEN.name]),
          stops_found |-> load.stops_found \cup {stop_name},
          green_stops_loaded |-> load.green_stops_loaded + 1]
    ELSE [load EXCEPT
              !.stations =
                  merge_line(@, station_index(@, stop_name), "GREEN"),
              !.stops_found = @ \cup {stop_name}]

RECURSIVE register_prefixes(_, _, _)

\* lines 94-100: for i in range(len(parts) - 2), the name is parts[:i+1]
register_prefixes(load, parts, i) ==
    IF i >= Len(parts) - 2 THEN load
    ELSE register_prefixes(
             IF looks_like_times(parts[Len(parts) - 1], parts[Len(parts)])
             THEN register_green(load, join(SubSeq(parts, 1, i + 1)))
             ELSE load,
             parts, i + 1)

\* lines 91-92: the tokens of one line of a route block
green_line(load, parts) ==
    IF Len(parts) >= 3 THEN register_prefixes(load, parts, 0) ELSE load

RECURSIVE green_lines(_, _)

green_lines(load, block) ==
    IF block = <<>> THEN load
    ELSE green_lines(
             IF contains(Head(block), StopColumnsText) THEN load
             ELSE green_line(load, split(strip(Head(block)))),
             Tail(block))

RECURSIVE green_routes(_, _)

\* lines 74-125: the routes whose key starts with 'FRG-'; stops_found starts
\* empty with every route
green_routes(load, routes_data) ==
    IF routes_data = <<>> THEN load
    ELSE green_routes(
             IF ~startswith(Head(routes_data).route_key, FRG) THEN load
             ELSE green_lines([load EXCEPT !.stops_found = {}],
                              Head(routes_data).lines),
             Tail(routes_data))

\* a file that cannot be read leaves the stations as they are (line 129)
load_green_line_from_routes(known, file) ==
    IF file = Nothing THEN known
    ELSE green_routes([stations |-> known, stops_found |-> {},
                       green_stops_loaded |-> 0], Get(file)).stations

\* lines 147-168: a record with a shape
store_record(known, record, line_code) ==
    IF station_index(known, record.sta_name) # 0
    THEN merge_line(known, station_index(known, record.sta_name), line_code)
    ELSE Append(known,
                [id |-> record.id,
                 name |-> record.sta_name,
                 line_code |-> <<line_code>>,
                 is_interchange |-> record.interchg,
                 coordinates |-> record.points[1],
                 line_name |-> line_info[line_code].name])

RECURSIVE _load_line_stops(_, _, _)

_load_line_stops(known, records, line_code) ==
    IF records = <<>> THEN known
    ELSE _load_line_stops(
             IF Head(records).points # <<>>
             THEN store_record(known, Head(records), line_code)
             ELSE known,
             Tail(records), line_code)

\* the Blue Line is loaded when its shapefile exists
load_blue(known, records) ==
    IF records = Nothing THEN known
    ELSE _load_line_stops(known, Get(records), "BLUE")

load_stops(known, file, records) ==
    load_blue(load_green_line_from_routes(known, file), records)

\* StopsDatabase.get_all_stops: the keys of the dict in insertion order,
\* with a line_code those of the stations whose line_code holds it.  A
\* station's line_code 'GREEN/BLUE' is the sequence of its tags, and
\* "line_code in station.line_code" of a line's code is membership in it.
stops_db_get_all_stops(known, line_code) ==
    IF line_code # None
    THEN LET on_line ==
                 SelectSeq(known,
                           LAMBDA station :
                               line_code \in Range(station.line_code))
         IN  [i \in DOMAIN on_line |-> on_line[i].name]
    ELSE [i \in DOMAIN known |-> known[i].name]

\* StopsDatabase.search_stops
stops_db_search_stops(known, query, line_code) ==
    matching_stops(stops_db_get_all_stops(known, line_code), lower(query))

(***************************************************************************)
(* Schedules and requests                                                  *)
(***************************************************************************)
MaxStops == 3

MaxTrips == 2

MaxRoutes == 6

MaxLineRoutes == 2

MaxCalls == 2

KoralTown == <<"K","o","r","a","l"," ","T","o","w","n">>

Gangal == <<"G","a","n","g","a","l">>

KORAL_CHOWK == <<"K","O","R","A","L"," ","C","H","O","W","K">>

GANGAL == <<"G","A","N","G","A","L">>

Saddar == <<"S","a","d","d","a","r">>

\* The schedule text carries schedule names; survey names (alias keys),
\* other letter case and unknown names come in with requests.
ScheduleNames == {KoralTown, Gangal}

RequestNames == {KoralTown, Gangal, KORAL_CHOWK, GANGAL, Saddar}

Dwell == 1 * 60

\* The stops of one trip as extract_trips_from_lines builds them: the k-th
\* accepted stop record gets sequence k.  The trip calls at the names of
\* pattern, leaves its first stop at first_departure and every next stop
\* hop seconds later, and arrives Dwell seconds before it leaves.
stops_of(pattern, first_departure, hop) ==
    [k \in 1..Len(pattern) |->
        LET departure == (first_departure + (k - 1) * hop) % SecondsPerDay
        IN  [name |-> pattern[k],
             arrival_time |-> (departure + SecondsPerDay - Dwell)
                                  % SecondsPerDay,
             departure_time |-> departure,
             sequence |-> k]]

trip_of(i, pattern, first_departure, hop) ==
    [trip_id |-> <<"1","0","1","-",DigitChars[i + 1]>>,
     start_time |-> first_departure,
     stops |-> stops_of(pattern, first_departure, hop)]

route_of(short_name, trips) ==
    [route_id |-> <<"1","0","1">>,
     short_name |-> short_name,
     long_name |-> <<"K","o","r","a","l"," ","-"," ","G","a","n","g","a","l">>,
     direction |-> "Forward",
     total_trips |-> Len(trips),
     average_headway |-> 15,
     trips |-> trips]

Reverse(s) == [i \in 1..Len(s) |-> s[Len(s) + 1 - i]]

Patterns ==
    UNION {[1..n -> ScheduleNames] : n \in 1..MaxStops}

\* Routes whose trips run a pattern of stops forward or reversed, a quarter
\* of an hour apart from 07:55.
MatchRoutes ==
    {route_of(<<"F","R","-","1">>,
              [i \in 1..n |->
                  trip_of(i, IF fwd[i] THEN p ELSE Reverse(p),
                          Time(7, 55, 0) + (i - 1) * 15 * 60, 6 * 60)]) :
        <<p, n, fwd>> \in
            {<<p, n, fwd>> \in
                 Patterns \X (1..MaxTrips) \X [1..MaxTrips -> BOOLEAN] :
                     \A i \in (n + 1)..MaxTrips : fwd[i]}}

Requests(origins, destinations, times, lines) ==
    [origin : origins, destination : destinations,
     preferred_time : times, metro_line : lines]

MatchRequests ==
    Requests(RequestNames, RequestNames, {Nothing, Some(Time(8, 0, 0))},
             {None, "BLUE"})

\* Routes of one pattern whose trips differ in departure and running time
RankTimings ==
    {Time(7, 55, 0), Time(8, 4, 30), Time(8, 10, 0), Time(23, 59, 0)}
        \X {16 * 60, 21 * 60}

\* a plain run, and a loop that calls at its first stop again
RankPatterns == {<<KoralTown, Gangal>>, <<KoralTown, Gangal, KoralTown>>}

RankTrips == RankPatterns \X RankTimings

RankRoutes ==
    {route_of(<<"F","R","-","1">>,
              [i \in 1..n |->
                  trip_of(i, t[i][1], t[i][2][1], t[i][2][2])]) :
        <<n, t>> \in
            {<<n, t>> \in (1..MaxTrips) \X [1..MaxTrips -> RankTrips] :
                 \A i \in (n + 1)..MaxTrips : t[i] = t[1]}}

RankRequests ==
    Requests({KoralTown, Gangal}, {KoralTown, Gangal, GANGAL},
             {Nothing, Some(Time(8, 0, 0)), Some(Time(0, 2, 0))}, {None})

\* Up to MaxRoutes routes of one trip each, under distinct keys
CapTimings ==
    {<<Time(7, 55, 0), 21 * 60>>, <<Time(8, 10, 0), 16 * 60>>,
     <<Time(8, 2, 0), 11 * 60>>}

CapCaches ==
    UNION {[1..n -> CapTimings] : n \in 1..MaxRoutes}

cap_cache(timings) ==
    [i \in 1..Len(timings) |->
        [route_key |-> "FR-" \o ToString(i) \o "_Forward",
         route |-> route_of(<<"F","R","-","1">>,
                            <<trip_of(1, <<KoralTown, Gangal>>,
                                      timings[i][1], timings[i][2])>>)]]

CapRequests ==
    Requests({KoralTown}, {Gangal}, {Nothing, Some(Time(8, 0, 0))}, {None})

\* Up to MaxLineRoutes routes of one trip each that differ in short name
ShortNames ==
    {<<"F","R","G","-","1">>, <<"F","R","-","1">>, <<"f","r","g","-","1">>,
     <<"F","R","1">>, <<"X","-","1">>}

line_cache(names) ==
    [i \in 1..Len(names) |->
        [route_key |-> "R" \o ToString(i),
         route |-> route_of(names[i],
                            <<trip_of(1, <<KoralTown, Gangal>>,
                                      Time(7, 55, 0), 6 * 60)>>)]]

LineRequests ==
    Requests({KoralTown}, {Gangal}, {Nothing}, {None, "GREEN", "BLUE"})

\* The lines of a schedule file
RouteIdLine == <<"R","o","u","t","e"," ","I","D"," ","1","0","1">>

ShortNameLine ==
    <<"S","h","o","r","t"," ","N","a","m","e"," ","F","R","-","1">>

LongNameLine ==
    <<"L","o","n","g"," ","N","a","m","e"," ","K","o","r","a","l"," ","-"," ",
      "G","a","n","g","a","l">>

DirectionLine ==
    <<"D","i","r","e","c","t","i","o","n"," ","F","o","r","w","a","r","d">>

TotalTripsLine == <<"T","o","t","a","l"," ","T","r","i","p","s"," ","2">>

AverageHeadwayLine ==
    <<"A","v","e","r","a","g","e"," ","H","e","a","d","w","a","y"," ","(","m",
      "i","n",")"," ","1","5">>

TripStartLine == <<"1","0","1","-","1"," ","0","8",":","0","0",":","0","0">>

StopHeaderLine ==
    <<"s","t","o","p","_","n","a","m","e"," ","a","r","r","i","v","a","l","_",
      "t","i","m","e"," ","d","e","p","a","r","t","u","r","e","_","t","i","m",
      "e">>

KoralTownLine ==
    <<"K","o","r","a","l"," ","T","o","w","n"," ","0","8",":","0","0",":","0",
      "0"," ","0","8",":","0","1",":","0","0">>

NumberedGangalLine ==
    <<" ","7"," ","G","a","n","g","a","l"," "," ","0","8",":","0","6",":","0",
      "0"," ","0","8",":","0","7",":","0","0">>

ShortTimesLine ==
    <<"S","a","d","d","a","r"," ","8",":","1","2"," ","8",":","1","3">>

NumberedGangal == <<"7"," ","G","a","n","g","a","l">>

HeaderLines ==
    <<RouteIdLine, ShortNameLine, LongNameLine, DirectionLine, TotalTripsLine,
      AverageHeadwayLine>>

\* a trip start, the column header, a stop, a stop with a number before its
\* name and more white space, a line whose times lack their seconds
TripLines ==
    {TripStartLine, StopHeaderLine, KoralTownLine, NumberedGangalLine,
     ShortTimesLine}

MaxLines == 4

MaxReads == 2

\* A file of one route block, with or without the route's header lines, or a
\* file that cannot be read
ScheduleFiles ==
    {Nothing} \cup
    {Some(<<[route_key |-> "FR-1_Forward", lines |-> header \o block]>>) :
        header \in {HeaderLines, <<>>},
        block \in UNION {[1..n -> TripLines] : n \in 1..MaxLines}}

\* Tokens of stop lines
Central == <<"C","e","n","t","r","a","l">>

Station == <<"S","t","a","t","i","o","n">>

WholeTime0800 == <<"0","8",":","0","0",":","0","0">>

WholeTime0801 == <<"0","8",":","0","1",":","0","0">>

TrailingTime == <<"0","8",":","0","0",":","0","0","x">>

ShortTime == <<"8",":","0","2">>

NoClockTime == <<"2","5",":","0","0",":","0","0">>

NameTokens == {Central, Station}

\* two well-formed times, one followed by a further character, one without
\* seconds, one that is no time of day
TimeTokens ==
    {WholeTime0800, WholeTime0801, TrailingTime, ShortTime, NoClockTime}

MaxNameTokens == 2

\* A trip start and one line after it: up to MaxNameTokens name tokens and
\* two time tokens
StopLineBlocks ==
    {<<TripStartLine, join(name \o <<time1, time2>>)>> :
        name \in UNION {[1..n -> NameTokens] : n \in 0..MaxNameTokens},
        time1 \in TimeTokens, time2 \in TimeTokens}

\* Texts handed to parse_time: up to MaxFields fields with colons between
Garbage == <<"g","a","r","b","a","g","e">>

FieldTexts ==
    {<<"0","8">>, <<"0","5">>, <<"0","0">>, <<"8">>, <<"2","5">>, <<"6","0">>,
     <<>>, Garbage}

MaxFields == 3

RECURSIVE colon_join(_)

colon_join(fields) ==
    IF Len(fields) = 1 THEN fields[1]
    ELSE fields[1] \o <<":">> \o colon_join(Tail(fields))

TimeTexts ==
    {colon_join(fields) :
        fields \in UNION {[1..n -> FieldTexts] : n \in 1..MaxFields}}

\* Header lines that make a route block malformed
WordTotalTripsLine ==
    <<"T","o","t","a","l"," ","T","r","i","p","s"," ","t","w","o">>

WordAverageHeadwayLine ==
    <<"A","v","e","r","a","g","e"," ","H","e","a","d","w","a","y"," ","(","m",
      "i","n",")"," ","s","o","o","n">>

SidewaysDirectionLine ==
    <<"D","i","r","e","c","t","i","o","n"," ","S","i","d","e","w","a","y",
      "s">>

\* one trip of one stop
OneTripLines == <<TripStartLine, StopHeaderLine, KoralTownLine>>

\* The lines of a route block: with the whole header, with the route id
\* only, without header, and with a header of which one value is wrong
BlockLines ==
    {HeaderLines \o OneTripLines,
     <<RouteIdLine>> \o OneTripLines,
     OneTripLines,
     <<RouteIdLine, ShortNameLine, WordTotalTripsLine>> \o OneTripLines,
     <<RouteIdLine, ShortNameLine, WordAverageHeadwayLine>> \o OneTripLines,
     <<RouteIdLine, ShortNameLine, SidewaysDirectionLine>> \o OneTripLines}

MaxBlocks == 3

\* A file of up to MaxBlocks route blocks under the keys R1, R2, ..., or a
\* file that cannot be read
LoadFiles ==
    {Nothing} \cup
    {Some([i \in 1..n |-> [route_key |-> "R" \o ToString(i),
                           lines |-> blocks[i]]]) :
        <<n, blocks>> \in
            {<<n, blocks>> \in (1..MaxBlocks) \X [1..MaxBlocks -> BlockLines] :
                 \A i \in (n + 1)..MaxBlocks :
                     blocks[i] = HeaderLines \o OneTripLines}}

MaxRequests == 2

\* Files of up to MaxBlocks blocks, each with the whole header or with none
RaceFiles ==
    {Nothing} \cup
    {Some([i \in 1..n |-> [route_key |-> "R" \o ToString(i),
                           lines |-> blocks[i]]]) :
        <<n, blocks>> \in
            {<<n, blocks>> \in
                 (1..MaxBlocks)
                     \X [1..MaxBlocks -> {HeaderLines \o OneTripLines,
                                          OneTripLines}] :
                 \A i \in (n + 1)..MaxBlocks :
                     blocks[i] = HeaderLines \o OneTripLines}}

MaxRecords == 2

MaxLoads == 2

SaddarLine == join(<<Saddar, WholeTime0800, WholeTime0801>>)

\* route keys of the two lines
GreenKey(i) == FRG \o <<ToString(i)>>

BlueKey(i) == <<"F","R","-">> \o <<ToString(i)>>

\* a block whose stop has a name of two words, a block whose stop has a name
\* of one word and a line whose times lack their seconds
DirectoryBlocks ==
    {<<ShortNameLine>> \o OneTripLines,
     <<TripStartLine, StopHeaderLine, SaddarLine, ShortTimesLine>>}

\* no file, and the files of up to most routes, each of either line and with
\* one of the blocks
KeyedFiles(blocks, most) ==
    {Nothing} \cup
    {Some([i \in 1..n |->
              [route_key |-> IF keys[i] = GreenKey(0)
                             THEN GreenKey(i) ELSE BlueKey(i),
               lines |-> chosen[i]]]) :
        <<n, keys, chosen>> \in
            {<<n, keys, chosen>> \in
                 (1..most)
                     \X [1..most -> {GreenKey(0), BlueKey(0)}]
                     \X [1..most -> blocks] :
                 \A i \in (n + 1)..most :
                     /\ keys[i] = GreenKey(0)
                     /\ chosen[i] = CHOOSE block \in blocks : TRUE}}

DirectoryFiles == KeyedFiles(DirectoryBlocks, MaxBlocks)

\* shapefile records: two stops of the schedule, a survey name that is an
\* interchange by its own record, and a record whose shape has no point
BlueRecords ==
    {[sta_name |-> Saddar, id |-> <<"BL", 1>>, interchg |-> FALSE,
      points |-> << <<1, 2>> >>],
     [sta_name |-> KoralTown, id |-> <<"BL", 2>>, interchg |-> FALSE,
      points |-> << <<3, 4>> >>],
     [sta_name |-> GANGAL, id |-> <<"BL", 3>>, interchg |-> TRUE,
      points |-> << <<5, 6>> >>],
     [sta_name |-> Saddar, id |-> <<"BL", 4>>, interchg |-> FALSE,
      points |-> <<>>]}

BlueSources ==
    {Nothing} \cup
    {Some(records) :
        records \in UNION {[1..n -> BlueRecords] : n \in 0..MaxRecords}}

\* a block that parses to a route of two stops, and a block without header
ServeBlocks ==
    {<<ShortNameLine, TripStartLine, KoralTownLine, NumberedGangalLine>>,
     OneTripLines}

\* files of Green Line routes
ServeFiles ==
    {file \in KeyedFiles(ServeBlocks, MaxLineRoutes) :
        file # Nothing =>
            \A i \in DOMAIN Get(file) :
                startswith(Get(file)[i].route_key, FRG)}

ServeRequests ==
    Requests({KoralTown}, {NumberedGangal, Saddar}, {Nothing}, {None, "GREEN"})

ServeQueries == {<<"g","a">>, KORAL_CHOWK, lower(KoralTown)}

MaxNameLen == 5

\* short names over the characters of the two prefixes, in both letter cases
NameChars == {"F", "R", "G", "-", "f", "r", "g", "1"}

ClassifyNames == UNION {[1..n -> NameChars] : n \in 0..MaxNameLen}

\* times of day on either side of midnight, with and without seconds
ClockTimes ==
    {Time(0, 0, 0), Time(0, 0, 30), Time(0, 2, 0), Time(0, 2, 59),
     Time(8, 0, 0), Time(8, 0, 1), Time(12, 0, 0), Time(23, 57, 30),
     Time(23, 58, 0), Time(23, 59, 0), Time(23, 59, 59)}

\* Listing and search: a schedule and a directory of up to MaxListed stops
MaxListed == 14

SADDAR == <<"S","A","D","D","A","R">>

\* the words of the name of stop i: Gangal, Saddar, SADDAR, Saddar A,
\* Saddar B, ...
listed_tokens(i) ==
    IF i = 1 THEN <<Gangal>>
    ELSE IF i = 2 THEN <<Saddar>>
    ELSE IF i = 3 THEN <<SADDAR>>
    ELSE <<Saddar, <<UpperLetters[i - 3]>> >>

\* SADDAR is on the Green line only, Saddar on both lines, the others on
\* the Blue line only
on_green(i) == i \in 2..3

on_blue(i) == i # 3

\* the stops in the order of the files: ascending and descending
ListedOrders ==
    {[k \in 1..n |-> k] : n \in 1..MaxListed}
        \cup {[k \in 1..n |-> n + 1 - k] : n \in 1..MaxListed}

\* the Blue stops as records of the shapefile
blue_listed(order) ==
    LET blue == SelectSeq(order, on_blue)
    IN  [k \in DOMAIN blue |->
            [sta_name |-> join(listed_tokens(blue[k])),
             id |-> <<"BL", blue[k]>>,
             interchg |-> FALSE,
             points |-> << <<blue[k], blue[k]>> >>]]

\* the Green stations in the order of their lines, as line 106 makes them
\* and line 164 merges them
green_stations(green) ==
    [k \in DOMAIN green |->
        [id |-> <<"GL", k>>,
         name |-> join(listed_tokens(green[k])),
         line_code |-> IF on_blue(green[k])
                       THEN <<"GREEN", "BLUE">> ELSE <<"GREEN">>,
         is_interchange |-> on_blue(green[k]),
         coordinates |-> <<0, 0>>,
         line_name |-> line_info.GREEN.name]]

\* the stations of the Blue line alone, as line 150 makes them
blue_stations(records) ==
    [k \in DOMAIN records |->
        [id |-> records[k].id,
         name |-> records[k].sta_name,
         line_code |-> <<"BLUE">>,
         is_interchange |-> records[k].interchg,
         coordinates |-> records[k].points[1],
         line_name |-> line_info.BLUE.name]]

\* the directory load_stops leaves: the Green stations, then the stations
\* of the Blue line alone
listed_stations(order) ==
    green_stations(SelectSeq(order, on_green))
        \o blue_stations(blue_listed(
               SelectSeq(order, LAMBDA i : ~on_green(i))))

\* one route per line that has a stop, of one trip calling at the stops
listed_route(key, short_name, called) ==
    IF called = <<>> THEN <<>>
    ELSE <<[route_key |-> key,
            route |-> route_of(short_name,
                         <<trip_of(1,
                                   [k \in DOMAIN called |->
                                       join(listed_tokens(called[k]))],
                                   Time(8, 0, 0), 2 * 60)>>)]>>

listed_cache(order) ==
    listed_route(GreenKey(1), GreenKey(1), SelectSeq(order, on_green))
        \o listed_route(BlueKey(1), BlueKey(1), SelectSeq(order, on_blue))

ListedQueries == {Saddar, <<"a","r"," ">>, GANGAL}

ListedLines == {None, "GREEN", "BLUE"}

\* Alias mapping: every key and every value of the table, a key in lower
\* case and a name the table does not hold; the codes of the two lines
AliasNames ==
    {blue_line_stop_mapping[i][1] : i \in DOMAIN blue_line_stop_mapping}
        \cup {blue_line_stop_mapping[i][2] : i \in DOMAIN blue_line_stop_mapping}
        \cup {lower(GANGAL), Saddar}

AliasLines == {"BLUE", "GREEN"}

\* Ranking around 06:00 and ties: trips that leave at 05:59, 06:00, 06:00:30
\* and 06:10, and runs in the other direction
TieTimings ==
    {Time(5, 59, 0), Time(6, 0, 0), Time(6, 0, 30), Time(6, 10, 0)}
        \X {16 * 60, 21 * 60}

TiePatterns == {<<KoralTown, Gangal>>, <<Gangal, KoralTown>>}

TieTrips == TiePatterns \X TieTimings

TieRoutes ==
    {route_of(<<"F","R","-","1">>,
              [i \in 1..n |->
                  trip_of(i, t[i][1], t[i][2][1], t[i][2][2])]) :
        <<n, t>> \in
            {<<n, t>> \in (1..MaxTrips) \X [1..MaxTrips -> TieTrips] :
                 \A i \in (n + 1)..MaxTrips : t[i] = t[1]}}

TieRequests ==
    Requests({KoralTown}, {Gangal}, {Nothing, Some(Time(6, 5, 0))}, {None})

\* Trip blocks: up to MaxLines lines, among them the boundary lines of two
\* trips, a stop record and a line that is no stop record
SecondTripStartLine ==
    <<"1","0","1","-","2"," ","0","9",":","0","0",":","0","0">>

BoundaryLines == {TripStartLine, SecondTripStartLine}

TripBlocks ==
    UNION {[1..n -> BoundaryLines \cup {StopHeaderLine, KoralTownLine,
                                         ShortTimesLine}] :
              n \in 1..MaxLines}

(***************************************************************************)
(* Actions                                                                 *)
(***************************************************************************)
\* lines 150-154: an empty cache makes load_all_routes open the file
reads_of(cache) == IF cache # <<>> THEN 0 ELSE 1

\* What a call of load_all_routes() does to the parser and the file
Load ==
    /\ routes_cache' = load_all_routes(routes_cache, schedule_file)
    /\ file_reads' = file_reads + reads_of(routes_cache)
    /\ UNCHANGED schedule_file

\* plan_route returns the plans of keyed; the history variables record the call
Return(req, keyed) ==
    /\ calls' = IF request = Some(req) THEN calls + 1 ELSE 1
    /\ request' = Some(req)
    /\ result' = [i \in 1..Len(keyed) |-> keyed[i].plan]
    /\ result_keys' = [i \in 1..Len(keyed) |-> keyed[i].route_key]
    /\ Load
    /\ UNCHANGED <<helper_vars, directory_vars, loop_vars>>

\* One call of plan_route(req), over the routes load_all_routes() gives it
\* (route_parser.py line 198)
PlanRoute(req) ==
    Return(req,
           plan_route_keyed(load_all_routes(routes_cache, schedule_file), req))

\* A first call, or the last call once more with identical arguments, up to
\* limit calls.
Call(requests, limit) ==
    \E req \in requests :
        /\ request = Nothing \/ request = Some(req)
        /\ calls < limit
        /\ PlanRoute(req)

\* The response has been returned; its RoutePlans are dropped.
Discard ==
    /\ request # Nothing
    /\ request' = Nothing
    /\ result' = <<>>
    /\ result_keys' = <<>>
    /\ calls' = 0
    /\ UNCHANGED <<schedule_file, routes_cache, file_reads, helper_vars,
                   directory_vars, loop_vars>>

\* One call of load_all_routes()
LoadAllRoutes ==
    /\ file_reads < MaxReads
    /\ Load
    /\ returned' =
           Some(load_all_routes_returns(routes_cache, schedule_file,
                                        file_reads))
    /\ UNCHANGED <<planner_vars, argument, directory_vars, loop_vars>>

\* extract_trips_from_lines(argument) is called on its own
ExtractTrips ==
    /\ returned' = Some(extract_trips_from_lines(argument))
    /\ UNCHANGED <<schedule_file, routes_cache, file_reads, planner_vars,
                   argument, directory_vars, loop_vars>>

\* parse_time(argument) is called on its own
ParseTime ==
    /\ returned' = Some(parse_time(argument))
    /\ UNCHANGED <<schedule_file, routes_cache, file_reads, planner_vars,
                   argument, directory_vars, loop_vars>>

\* no function has been called on its own
NoHelperCall ==
    /\ argument = Nothing
    /\ returned = Nothing

\* the directory of a process that found neither source file
NoDirectory ==
    /\ stations = <<>>
    /\ blue_records = Nothing
    /\ stop_loads = 1

\* the event loop is idle
NoHandlers ==
    /\ handlers = <<>>
    /\ running = Nothing

NoPlanYet ==
    /\ request = Nothing
    /\ result = <<>>
    /\ result_keys = <<>>
    /\ calls = 0

\* The planner's schedules are caches that a load has populated; the file is
\* not read again (lines 150-151).
NoCallYet ==
    /\ schedule_file = Nothing
    /\ file_reads = 1
    /\ NoPlanYet
    /\ NoHelperCall
    /\ NoDirectory
    /\ NoHandlers

\* Matching of names: one route, every pattern of stops
Init ==
    /\ routes_cache \in
           {<<[route_key |-> "FR-1_Forward", route |-> r]>> : r \in MatchRoutes}
    /\ NoCallYet

Next == Call(MatchRequests, MaxCalls) \/ Discard

Spec == Init /\ [][Next]_vars

\* Ranking of the trips of one route
InitRank ==
    /\ routes_cache \in
           {<<[route_key |-> "FR-1_Forward", route |-> r]>> : r \in RankRoutes}
    /\ NoCallYet

NextRank == Call(RankRequests, 1) \/ Discard

SpecRank == InitRank /\ [][NextRank]_vars

\* Ranking of the trips of one route without preferred_time, and ties
InitTie ==
    /\ routes_cache \in
           {<<[route_key |-> "FR-1_Forward", route |-> r]>> : r \in TieRoutes}
    /\ NoCallYet

NextTie == Call(TieRequests, 1) \/ Discard

SpecTie == InitTie /\ [][NextTie]_vars

\* Ranking and cap across many routes
InitCap ==
    /\ routes_cache \in {cap_cache(t) : t \in CapCaches}
    /\ NoCallYet

NextCap == Call(CapRequests, 1) \/ Discard

SpecCap == InitCap /\ [][NextCap]_vars

\* Line filter across routes of both lines and of none
InitLine ==
    /\ routes_cache \in
           {line_cache(names) :
               names \in UNION {[1..n -> ShortNames] : n \in 1..MaxLineRoutes}}
    /\ NoCallYet

NextLine == Call(LineRequests, 1) \/ Discard

SpecLine == InitLine /\ [][NextLine]_vars

\* Loading of a schedule file into the empty cache
InitParse ==
    /\ schedule_file \in ScheduleFiles
    /\ routes_cache = <<>>
    /\ file_reads = 0
    /\ NoPlanYet
    /\ NoHelperCall
    /\ NoDirectory
    /\ NoHandlers

NextParse == LoadAllRoutes

SpecParse == InitParse /\ [][NextParse]_vars

\* No file and nothing loaded: a function is called on its own
NothingLoaded ==
    /\ schedule_file = Nothing
    /\ routes_cache = <<>>
    /\ file_reads = 0
    /\ NoPlanYet
    /\ NoDirectory
    /\ NoHandlers

\* Reading of one line of a trip block
InitStopLine ==
    /\ argument \in StopLineBlocks
    /\ returned = Nothing
    /\ NothingLoaded

NextStopLine == ExtractTrips

\* Reading of the trips of a block
InitTrips ==
    /\ argument \in TripBlocks
    /\ returned = Nothing
    /\ NothingLoaded

NextTrips == ExtractTrips

SpecTrips == InitTrips /\ [][NextTrips]_vars

SpecStopLine == InitStopLine /\ [][NextStopLine]_vars

\* Parsing of a time text
InitTime ==
    /\ argument \in TimeTexts
    /\ returned = Nothing
    /\ NothingLoaded

NextTime == ParseTime

SpecTime == InitTime /\ [][NextTime]_vars

\* Loading of a file of several route blocks, some of them malformed
InitLoad ==
    /\ schedule_file \in LoadFiles
    /\ routes_cache = <<>>
    /\ file_reads = 0
    /\ NoPlanYet
    /\ NoHelperCall
    /\ NoDirectory
    /\ NoHandlers

NextLoad == LoadAllRoutes

SpecLoad == InitLoad /\ [][NextLoad]_vars

(***************************************************************************)
(* Requests served by the event loop.  Every handler that reads the        *)
(* schedule (main.py: plan_route, get_all_stops, search_stops, chat) is an *)
(* async def without an await, and begins by calling load_all_routes(),    *)
(* which is followed here statement by statement.  A handler is at "idle"  *)
(* before it starts, at "open" before line 154, at "parse" in the loop of  *)
(* lines 157-160 (i is the block it comes to next), at "done" once         *)
(* load_all_routes has returned; seen is then Some(the mapping it got).    *)
(***************************************************************************)
\* mutant: the handlers run on threads (plain def endpoints)
may_run_on_threads(r) == TRUE

\* the event loop leaves a handler only when it returns: one that has started
\* runs to its end before another starts
may_run(r) == running = Nothing \/ running = Some(r)

\* self.routes_cache[route_key] = route
put(cache, route_key, route) ==
    IF \E i \in DOMAIN cache : cache[i].route_key = route_key
    THEN [i \in DOMAIN cache |->
              IF cache[i].route_key = route_key
              THEN [route_key |-> route_key, route |-> route]
              ELSE cache[i]]
    ELSE Append(cache, [route_key |-> route_key, route |-> route])

\* handler r takes the step that leaves it as after
Step(r, after) ==
    /\ may_run(r)
    /\ handlers' = [handlers EXCEPT ![r] = after]
    /\ running' = IF after.pc = "done" THEN Nothing ELSE Some(r)
    /\ UNCHANGED <<schedule_file, planner_vars, helper_vars, directory_vars>>

\* lines 150-151: a populated cache is returned at once
Enter(r) ==
    /\ handlers[r].pc = "idle"
    /\ Step(r, IF routes_cache # <<>>
               THEN [pc |-> "done", i |-> 0, seen |-> Some(routes_cache)]
               ELSE [pc |-> "open", i |-> 0, seen |-> Nothing])
    /\ UNCHANGED <<routes_cache, file_reads>>

\* lines 153-155 and 166-168: the file is read; {} is returned when it cannot
Open(r) ==
    /\ handlers[r].pc = "open"
    /\ Step(r, IF schedule_file = Nothing
               THEN [pc |-> "done", i |-> 0, seen |-> Some(<<>>)]
               ELSE [pc |-> "parse", i |-> 1, seen |-> Nothing])
    /\ file_reads' = file_reads + 1
    /\ UNCHANGED routes_cache

\* lines 157-160: one route block is parsed and, if it parses, cached
ParseBlock(r) ==
    /\ handlers[r].pc = "parse"
    /\ handlers[r].i <= Len(Get(schedule_file))
    /\ Step(r, [handlers[r] EXCEPT !.i = @ + 1])
    /\ routes_cache' =
           IF parse_route_from_json(
                  Get(schedule_file)[handlers[r].i].lines) = Nothing
           THEN routes_cache
           ELSE put(routes_cache,
                    Get(schedule_file)[handlers[r].i].route_key,
                    Get(parse_route_from_json(
                            Get(schedule_file)[handlers[r].i].lines)))
    /\ UNCHANGED file_reads

\* line 164: after the last block the cache is returned
Leave(r) ==
    /\ handlers[r].pc = "parse"
    /\ handlers[r].i > Len(Get(schedule_file))
    /\ Step(r, [pc |-> "done", i |-> 0, seen |-> Some(routes_cache)])
    /\ UNCHANGED <<routes_cache, file_reads>>

InitLoop ==
    /\ schedule_file \in RaceFiles
    /\ routes_cache = <<>>
    /\ file_reads = 0
    /\ handlers = [r \in 1..MaxRequests |->
                      [pc |-> "idle", i |-> 0, seen |-> Nothing]]
    /\ running = Nothing
    /\ NoPlanYet
    /\ NoHelperCall
    /\ NoDirectory

NextLoop ==
    \E r \in 1..MaxRequests :
        Enter(r) \/ Open(r) \/ ParseBlock(r) \/ Leave(r)

SpecLoop == InitLoop /\ [][NextLoop]_vars

(***************************************************************************)
(* The stop directory: StopsDatabase() loads the stops once; load_stops is *)
(* a public method and may be called again.                                *)
(***************************************************************************)
LoadStops ==
    /\ stop_loads < MaxLoads
    /\ stations' = load_stops(stations, schedule_file, blue_records)
    /\ stop_loads' = stop_loads + 1
    /\ UNCHANGED <<schedule_file, routes_cache, file_reads, planner_vars,
                   helper_vars, blue_records, loop_vars>>

\* StopsDatabase.__init__
Constructed ==
    /\ stations = load_stops(<<>>, schedule_file, blue_records)
    /\ stop_loads = 1

InitDirectory ==
    /\ schedule_file \in DirectoryFiles
    /\ blue_records \in BlueSources
    /\ Constructed
    /\ routes_cache = <<>>
    /\ file_reads = 0
    /\ NoPlanYet
    /\ NoHelperCall
    /\ NoHandlers

NextDirectory == LoadStops

SpecDirectory == InitDirectory /\ [][NextDirectory]_vars

(***************************************************************************)
(* The endpoints that read the schedule: /plan-route, /stops and           *)
(* /search-stops.  The cache is empty or was populated from the file as it *)
(* was at the first request; the file may have been rewritten since.       *)
(***************************************************************************)
\* the response names goes out; routes is what load_all_routes left
Serve(routes, reads, names) ==
    /\ file_reads + reads <= MaxReads
    /\ routes_cache' = routes
    /\ file_reads' = file_reads + reads
    /\ returned' = Some(names)
    /\ UNCHANGED <<schedule_file, planner_vars, argument, directory_vars,
                   loop_vars>>

GetAllStops(metro_line) ==
    Serve(load_all_routes(routes_cache, schedule_file),
          listing_reads(routes_cache, schedule_file, metro_line),
          get_all_stops(load_all_routes(routes_cache, schedule_file),
                        metro_line))

SearchStops(query, metro_line) ==
    Serve(load_all_routes(routes_cache, schedule_file),
          listing_reads(routes_cache, schedule_file, metro_line),
          search_stops(get_all_stops(load_all_routes(routes_cache,
                                                     schedule_file),
                                     metro_line),
                       query))

InitServe ==
    /\ schedule_file \in ServeFiles
    /\ routes_cache \in {load_all_routes(<<>>, file) : file \in ServeFiles}
    /\ file_reads = IF routes_cache = <<>> THEN 0 ELSE 1
    /\ blue_records \in {Nothing, Some(<<>>)}
    /\ Constructed
    /\ NoPlanYet
    /\ NoHelperCall
    /\ NoHandlers

NextServe ==
    \/ \E req \in ServeRequests :
           /\ request = Nothing
           /\ file_reads < MaxReads
           /\ PlanRoute(req)
    \/ Discard
    \/ \E metro_line \in MetroLine \cup {None} : GetAllStops(metro_line)
    \/ \E query \in ServeQueries, metro_line \in {None, "BLUE"} :
           SearchStops(query, metro_line)

SpecServe == InitServe /\ [][NextServe]_vars

(***************************************************************************)
(* The two helpers of RoutePlanner called on their own                     *)
(***************************************************************************)
\* _classify_route_line(argument)
Classify ==
    /\ returned' = Some(_classify_route_line(argument))
    /\ UNCHANGED <<schedule_file, routes_cache, file_reads, planner_vars,
                   argument, directory_vars, loop_vars>>

InitClassify ==
    /\ argument \in ClassifyNames
    /\ returned = Nothing
    /\ NothingLoaded

NextClassify == Classify

SpecClassify == InitClassify /\ [][NextClassify]_vars

\* minutes_forward(argument[1], argument[2])
MinutesForward ==
    /\ returned' = Some(minutes_forward(argument[1], argument[2]))
    /\ UNCHANGED <<schedule_file, routes_cache, file_reads, planner_vars,
                   argument, directory_vars, loop_vars>>

InitMinutes ==
    /\ argument \in ClockTimes \X ClockTimes
    /\ returned = Nothing
    /\ NothingLoaded

NextMinutes == MinutesForward

SpecMinutes == InitMinutes /\ [][NextMinutes]_vars

\* circular_abs_minutes(argument[1], argument[2])
CircularAbsMinutes ==
    /\ returned' = Some(circular_abs_minutes(argument[1], argument[2]))
    /\ UNCHANGED <<schedule_file, routes_cache, file_reads, planner_vars,
                   argument, directory_vars, loop_vars>>

InitCircular == InitMinutes

NextCircular == CircularAbsMinutes

SpecCircular == InitCircular /\ [][NextCircular]_vars

\* Listing and search of stops, by the directory, the parser and the planner.
\* argument records the call: the function, the query (Nothing for a
\* listing) and the line.
Answer(call, routes, reads, names) ==
    /\ routes_cache' = routes
    /\ file_reads' = file_reads + reads
    /\ argument' = call
    /\ returned' = Some(names)
    /\ UNCHANGED <<schedule_file, planner_vars, directory_vars, loop_vars>>

DirectoryGetAllStops(line_code) ==
    Answer(<<"stops_db.get_all_stops", Nothing, line_code>>, routes_cache, 0,
           stops_db_get_all_stops(stations, line_code))

DirectorySearchStops(query, line_code) ==
    Answer(<<"stops_db.search_stops", Some(query), line_code>>,
           routes_cache, 0,
           stops_db_search_stops(stations, query, line_code))

ParserGetAllStops ==
    Answer(<<"route_parser.get_all_stops", Nothing, None>>,
           load_all_routes(routes_cache, schedule_file),
           listing_reads(routes_cache, schedule_file, None),
           route_parser_get_all_stops(
               load_all_routes(routes_cache, schedule_file)))

ParserSearchStops(query) ==
    Answer(<<"route_parser.search_stops", Some(query), None>>,
           load_all_routes(routes_cache, schedule_file),
           listing_reads(routes_cache, schedule_file, None),
           route_parser_search_stops(
               load_all_routes(routes_cache, schedule_file), query))

PlannerGetAllStops(metro_line) ==
    Answer(<<"route_planner.get_all_stops", Nothing, metro_line>>,
           load_all_routes(routes_cache, schedule_file),
           listing_reads(routes_cache, schedule_file, metro_line),
           get_all_stops(load_all_routes(routes_cache, schedule_file),
                         metro_line))

PlannerSearchStops(query, metro_line) ==
    Answer(<<"route_planner.search_stops", Some(query), metro_line>>,
           load_all_routes(routes_cache, schedule_file),
           listing_reads(routes_cache, schedule_file, metro_line),
           search_stops(get_all_stops(load_all_routes(routes_cache,
                                                      schedule_file),
                                      metro_line),
                        query))

InitListing ==
    /\ \E order \in ListedOrders :
           /\ routes_cache = listed_cache(order)
           /\ stations = listed_stations(order)
           /\ blue_records = Some(blue_listed(order))
    /\ schedule_file = Nothing
    /\ file_reads = 1
    /\ stop_loads = 1
    /\ NoPlanYet
    /\ NoHelperCall
    /\ NoHandlers

NextListing ==
    \/ \E line \in ListedLines : DirectoryGetAllStops(line)
    \/ \E query \in ListedQueries, line \in ListedLines :
           DirectorySearchStops(query, line)
    \/ ParserGetAllStops
    \/ \E query \in ListedQueries : ParserSearchStops(query)
    \/ \E line \in ListedLines : PlannerGetAllStops(line)
    \/ \E query \in ListedQueries, line \in ListedLines :
           PlannerSearchStops(query, line)

SpecListing == InitListing /\ [][NextListing]_vars

\* Alias mapping.  argument is the history of the calls, each [function,
\* stop_name, line_code, returned]; a call maps a name of AliasNames or the
\* name the call before it returned.
MapStopName(function, stop_name, line_code, mapped) ==
    /\ Len(argument) < MaxCalls
    /\ argument' = Append(argument,
                          [function |-> function, stop_name |-> stop_name,
                           line_code |-> line_code, returned |-> mapped])
    /\ returned' = Some(mapped)
    /\ UNCHANGED <<schedule_file, routes_cache, file_reads, planner_vars,
                   directory_vars, loop_vars>>

MapStopNameForRoutes(stop_name, line_code) ==
    MapStopName("map_stop_name_for_routes", stop_name, line_code,
                map_stop_name_for_routes(stop_name, line_code))

MapStopNameForDisplay(stop_name, line_code) ==
    MapStopName("map_stop_name_for_display", stop_name, line_code,
                map_stop_name_for_display(stop_name, line_code))

InitAlias ==
    /\ NoHelperCall
    /\ NothingLoaded

\* the names a call can be given
NamesAtHand == IF returned = Nothing THEN AliasNames ELSE {Get(returned)}

NextAlias ==
    \/ \E stop_name \in NamesAtHand, line_code \in AliasLines :
           MapStopNameForRoutes(stop_name, line_code)
    \/ \E stop_name \in NamesAtHand, line_code \in AliasLines :
           MapStopNameForDisplay(stop_name, line_code)

SpecAlias == InitAlias /\ [][NextAlias]_vars

(***************************************************************************)
(* Properties.  They are stated on the call the history variables record:  *)
(* request, result and result_keys.                                        *)
(***************************************************************************)
Called == request # Nothing

\* the schedule name a survey name stands for; every other name, itself
Canonical(name) ==
    LET values == {blue_line_stop_mapping[i][2] :
                      i \in {j \in DOMAIN blue_line_stop_mapping :
                                blue_line_stop_mapping[j][1] = name}}
    IN  IF values = {} THEN name ELSE CHOOSE v \in values : TRUE

\* the lower-case forms under which a requested name matches a stop name:
\* its own (case-insensitive match) and that of its alias
MatchForms(name) == {lower(name), lower(Canonical(name))}

\* the two names denote one stop: equal, equal up to letter case, or one
\* the alias of the other
SameStop(origin, destination) ==
    \/ lower(origin) = lower(destination)
    \/ Canonical(origin) = destination
    \/ Canonical(destination) = origin

OrderedPairOf(route, origin_forms, destination_forms) ==
    \E t \in DOMAIN route.trips :
        \E a, b \in DOMAIN route.trips[t].stops :
            /\ lower(route.trips[t].stops[a].name) \in origin_forms
            /\ lower(route.trips[t].stops[b].name) \in destination_forms
            /\ route.trips[t].stops[a].sequence
                   < route.trips[t].stops[b].sequence

\* some trip of the route has a stop matching origin with a sequence
\* strictly less than that of a stop matching destination
HasOrderedPair(route, origin, destination) ==
    OrderedPairOf(route, MatchForms(origin), MatchForms(destination))

NoStopOf(forms) ==
    \A i \in DOMAIN routes_cache :
        \A t \in DOMAIN routes_cache[i].route.trips :
            \A k \in DOMAIN routes_cache[i].route.trips[t].stops :
                lower(routes_cache[i].route.trips[t].stops[k].name) \notin forms

\* the name matches no stop of any trip in the cache
UnknownName(name) == NoStopOf(MatchForms(name))

\* the routes connection discovery accepts for req, after the line filter
Accepted(req) ==
    _filter_routes_by_line(
        find_routes_between_stops(routes_cache, req.origin, req.destination),
        req.metro_line)

\* minutes from a forward to the next occurrence of b on the 24-hour clock
ForwardMinutes(a, b) == ((b - a + SecondsPerDay) % SecondsPerDay) \div 60

\* circular 24-hour distance in minutes
CircularMinutes(a, b) ==
    IF ForwardMinutes(a, b) <= ForwardMinutes(b, a)
    THEN ForwardMinutes(a, b) ELSE ForwardMinutes(b, a)

LexLeq(a, b) == a[1] < b[1] \/ (a[1] = b[1] /\ a[2] <= b[2])

\* C1: plan_route returns at most 5 RoutePlans, whatever the schedule and
\* the request, also when more than 5 routes qualify.
C1_AtMostFive == Len(result) <= 5

\* more than 5 routes were accepted and exactly 5 plans came back
C1_Witness ==
    /\ Called
    /\ Len(Accepted(Get(request))) > 5
    /\ Len(result) = 5

\* C2: name variants are tolerated end to end: every route that connection
\* discovery accepts and that passes the line filter yields exactly one
\* RoutePlan before the cap of 5; in particular a request under a survey
\* name whose route is accepted has a non-empty result.
C2_AcceptedRouteYieldsPlan ==
    Called => Len(result) = Min(5, Len(Accepted(Get(request))))

C3_Holds(req, connecting) ==
    \A i \in DOMAIN routes_cache :
        (\E j \in DOMAIN connecting :
             connecting[j].route_key = routes_cache[i].route_key)
        <=> HasOrderedPair(routes_cache[i].route, req.origin, req.destination)

\* C3: find_routes_between_stops returns a route if and only if one of its
\* trips has a stop matching origin and a stop matching destination with
\* the origin's sequence strictly less than the destination's, also in
\* trips in which a stop name occurs more than once.  (Stated for requests
\* whose origin and destination denote different stops.)
C3_ConnectsIffOrderedPair ==
    (Called /\ ~SameStop(Get(request).origin, Get(request).destination))
        => C3_Holds(Get(request),
                    find_routes_between_stops(routes_cache,
                        Get(request).origin, Get(request).destination))

\* The stops find_best_trip's claim speaks of in a trip in which a name may
\* occur more than once: the last stop named origin, and the last stop
\* named destination (and not origin).
OriginIndexes(trip, origin) ==
    {k \in DOMAIN trip.stops : lower(trip.stops[k].name) = lower(origin)}

DestinationIndexes(trip, origin, destination) ==
    {k \in DOMAIN trip.stops :
        /\ lower(trip.stops[k].name) = lower(destination)
        /\ lower(trip.stops[k].name) # lower(origin)}

Last(indexes) == CHOOSE k \in indexes : \A m \in indexes : m <= k

OriginStop(trip, origin) == trip.stops[Last(OriginIndexes(trip, origin))]

DestinationStop(trip, origin, destination) ==
    trip.stops[Last(DestinationIndexes(trip, origin, destination))]

\* origin precedes destination in the trip
Precedes(trip, origin, destination) ==
    /\ OriginIndexes(trip, origin) # {}
    /\ DestinationIndexes(trip, origin, destination) # {}
    /\ OriginStop(trip, origin).sequence
           < DestinationStop(trip, origin, destination).sequence

\* (circular distance preferred_time .. origin departure, journey duration)
TripPair(trip, req) ==
    <<CircularMinutes(Get(req.preferred_time),
                      OriginStop(trip, req.origin).departure_time),
      ForwardMinutes(
          OriginStop(trip, req.origin).departure_time,
          DestinationStop(trip, req.origin, req.destination).arrival_time)>>

\* the segment is the ride of trip from its origin to its destination stop
SegmentOfTrip(segment, trip, req) ==
    /\ segment.trip_id = trip.trip_id
    /\ segment.departure_time = OriginStop(trip, req.origin).departure_time
    /\ segment.arrival_time
           = DestinationStop(trip, req.origin, req.destination).arrival_time

C4_RouteHolds(item, req, qualifying) ==
    IF qualifying = {}
    THEN \A j \in DOMAIN result : result_keys[j] # item.route_key
    ELSE \E j \in DOMAIN result :
            /\ result_keys[j] = item.route_key
            /\ \E t \in qualifying :
                  /\ SegmentOfTrip(result[j].segments[1],
                                   item.route.trips[t], req)
                  /\ \A u \in qualifying :
                         LexLeq(TripPair(item.route.trips[t], req),
                                TripPair(item.route.trips[u], req))

PlanKey(plan, preferred_time) ==
    IF preferred_time # Nothing
    THEN <<plan.total_wait_time, plan.segments[1].duration_minutes>>
    ELSE <<plan.total_duration, 0>>

C5_Holds(req, produced) ==
    /\ Len(result) = Min(5, Len(produced))
    /\ \A i, j \in DOMAIN result :
           i < j => /\ LexLeq(PlanKey(result[i], req.preferred_time),
                              PlanKey(result[j], req.preferred_time))
                    /\ result_keys[i] # result_keys[j]
    /\ \A j \in DOMAIN result :
           \E a \in DOMAIN produced :
               /\ produced[a].route_key = result_keys[j]
               /\ produced[a].plan = result[j]
    /\ \A a \in DOMAIN produced :
           (\A j \in DOMAIN result : result_keys[j] # produced[a].route_key)
               => \A j \in DOMAIN result :
                      LexLeq(PlanKey(result[j], req.preferred_time),
                             PlanKey(produced[a].plan, req.preferred_time))

\* C5: the returned list is sorted ascending by (total_wait_time,
\* duration_minutes) when preferred_time is given and by total_duration
\* otherwise, and when more than 5 routes produce a plan the 5 returned
\* are the ones with the smallest sort keys.
C5_SortedSmallestFive ==
    Called => C5_Holds(Get(request),
                       collect_plans(Accepted(Get(request)), Get(request)))

\* more than 5 plans were produced, with a preferred time, and the
\* returned ones do not all have the same key
C5_Witness ==
    /\ Called
    /\ Get(request).preferred_time # Nothing
    /\ Len(Accepted(Get(request))) > 5
    /\ Len(result) = 5
    /\ result[1].total_wait_time < result[5].total_wait_time

\* C6: if origin or destination matches no stop name of any trip, neither
\* directly nor through the alias table, connection discovery finds no
\* route and plan_route returns an empty list.
C6_UnknownNameEmpty ==
    (Called /\ (UnknownName(Get(request).origin)
                \/ UnknownName(Get(request).destination)))
        => /\ result = <<>>
           /\ find_routes_between_stops(routes_cache, Get(request).origin,
                                        Get(request).destination) = <<>>

\* an unknown origin asked towards a stop the schedule has
C6_Witness ==
    /\ Called
    /\ UnknownName(Get(request).origin)
    /\ ~UnknownName(Get(request).destination)
    /\ result = <<>>

C7_Holds(req, connecting) ==
    /\ SameStop(req.origin, req.destination) => result = <<>>
    /\ lower(req.origin) = lower(req.destination) => connecting = <<>>
    /\ \A i \in DOMAIN routes_cache :
           ~HasOrderedPair(routes_cache[i].route, req.origin, req.destination)
               => /\ \A j \in DOMAIN result :
                         result_keys[j] # routes_cache[i].route_key
                  /\ \A j \in DOMAIN connecting :
                         connecting[j].route_key # routes_cache[i].route_key

\* C7: when origin equals destination (also up to letter case, or one the
\* alias of the other), or when in every trip of a route the destination's
\* sequence is not greater than the origin's, the route yields no RoutePlan.
C7_NoPlanWithoutDirection ==
    Called => C7_Holds(Get(request),
                       find_routes_between_stops(routes_cache,
                           Get(request).origin, Get(request).destination))

\* a survey name asked towards the stop it stands for, on a route that
\* calls there twice: discovery accepts the route, no plan comes out
C7_Witness ==
    /\ Called
    /\ Get(request).origin = KORAL_CHOWK
    /\ Get(request).destination = KoralTown
    /\ find_routes_between_stops(routes_cache, KORAL_CHOWK, KoralTown) # <<>>
    /\ result = <<>>

\* the line of a short name, by its literal prefix
LineOf(short_name) ==
    IF /\ Len(short_name) >= 4
       /\ short_name[1] = "F" /\ short_name[2] = "R"
       /\ short_name[3] = "G" /\ short_name[4] = "-"
    THEN "GREEN"
    ELSE IF /\ Len(short_name) >= 3
            /\ short_name[1] = "F" /\ short_name[2] = "R"
            /\ short_name[3] = "-"
         THEN "BLUE"
         ELSE "UNKNOWN"

\* C8: with a line filter L every returned RoutePlan comes from a route
\* whose short_name classifies to L; routes of the other line and UNKNOWN
\* routes never appear.
C8_OnlyRoutesOfLine ==
    (Called /\ Get(request).metro_line # None) =>
        \A j \in DOMAIN result :
            /\ LineOf(result[j].segments[1].route_name)
                   = Get(request).metro_line
            /\ \E i \in DOMAIN routes_cache :
                   /\ routes_cache[i].route_key = result_keys[j]
                   /\ routes_cache[i].route.short_name
                          = result[j].segments[1].route_name

\* two connecting routes, one of them not of the requested line
C8_Witness ==
    /\ Called
    /\ Get(request).metro_line = "GREEN"
    /\ Len(find_routes_between_stops(routes_cache, Get(request).origin,
                                     Get(request).destination)) = 2
    /\ Len(result) = 1

C10_SequenceIsPosition ==
    \A i \in DOMAIN routes_cache :
        \A t \in DOMAIN routes_cache[i].route.trips :
            \A k \in DOMAIN routes_cache[i].route.trips[t].stops :
                routes_cache[i].route.trips[t].stops[k].sequence = k

\* a trip was read from a block whose first stop line carries the number 7
\* and whose second line is no stop record: "7 Gangal" is stop 1, Koral Town
\* stop 2
C10_Witness ==
    /\ schedule_file # Nothing
    /\ Get(schedule_file)[1].lines =
           HeaderLines \o <<TripStartLine, NumberedGangalLine, ShortTimesLine,
                            KoralTownLine>>
    /\ Len(routes_cache) = 1
    /\ Len(routes_cache[1].route.trips) = 1
    /\ Len(routes_cache[1].route.trips[1].stops) = 2
    /\ routes_cache[1].route.trips[1].stops[1].name = NumberedGangal
    /\ routes_cache[1].route.trips[1].stops[2].name = KoralTown

\* HH:MM:SS as a whole token: two digits, colon, two digits, colon, two
\* digits, and nothing more
WholeTime(token) ==
    /\ Len(token) = 8
    /\ \A i \in {1, 2, 4, 5, 7, 8} : token[i] \in Digits
    /\ \A i \in {3, 6} : token[i] = ":"

\* the stops of the trips read from a trip start and one line
StopsRead(trips) == IF trips = <<>> THEN <<>> ELSE trips[1].stops

C11_Holds(parts, stops) ==
    Len(parts) >= 3 =>
        /\ stops # <<>> <=>
               /\ WholeTime(parts[Len(parts) - 1])
               /\ WholeTime(parts[Len(parts)])
        /\ stops # <<>> =>
               /\ Len(stops) = 1
               /\ stops[1].name = join(SubSeq(parts, 1, Len(parts) - 2))
               /\ stops[1].arrival_time = parse_time(parts[Len(parts) - 1])
               /\ stops[1].departure_time = parse_time(parts[Len(parts)])

\* C11: a line of a trip block that has a name before its last two tokens is
\* taken as a stop record if and only if those two tokens are each HH:MM:SS
\* as whole tokens; the stop then has the first as arrival time, the second
\* as departure time and the leading tokens, joined by single spaces, as name.
C11_StopRecordIffWholeTimes ==
    returned # Nothing =>
        C11_Holds(split(argument[2]), StopsRead(Get(returned)))

\* the ways to write the number n in a clock time: with two digits, and
\* with one when it is below ten
Numerals(n) ==
    {<<DigitChars[(n \div 10) + 1], DigitChars[(n % 10) + 1]>>}
        \cup (IF n < 10 THEN {<<DigitChars[n + 1]>>} ELSE {})

\* the numbers up to largest that field writes
NumbersOf(field, largest) == {n \in 0..largest : field \in Numerals(n)}

Only(numbers) == CHOOSE n \in numbers : TRUE

\* the time of day that fields, the parts of a text between its colons, write
\* as hour, minute and second or as hour and minute; Nothing when they write
\* none
ClockOf(fields) ==
    IF /\ Len(fields) \in {2, 3}
       /\ NumbersOf(fields[1], 23) # {}
       /\ NumbersOf(fields[2], 59) # {}
       /\ Len(fields) = 3 => NumbersOf(fields[3], 59) # {}
    THEN Some(Time(Only(NumbersOf(fields[1], 23)),
                   Only(NumbersOf(fields[2], 59)),
                   IF Len(fields) = 3 THEN Only(NumbersOf(fields[3], 59))
                   ELSE 0))
    ELSE Nothing

\* C12: parse_time gives the time of a text in HH:MM:SS form, the time with
\* seconds 0 of a text in HH:MM form, and 00:00:00 for every other text.
C12_ParseTimeOrMidnight ==
    returned # Nothing =>
        Get(returned) =
            IF ClockOf(colon_fields(argument)) # Nothing
            THEN Get(ClockOf(colon_fields(argument)))
            ELSE Time(0, 0, 0)

\* '08:05' gave 08:05:00
C12_Witness ==
    /\ argument = <<"0","8",":","0","5">>
    /\ returned = Some(Time(8, 5, 0))

\* a route block is malformed: it has no header line, or a header line whose
\* value is no integer or no direction
Malformed(lines) ==
    \/ Range(lines) \cap Range(HeaderLines) = {}
    \/ Range(lines) \cap {WordTotalTripsLine, WordAverageHeadwayLine,
                          SidewaysDirectionLine} # {}

WellFormedBlock(block) == ~Malformed(block.lines)

\* the blocks of the file, none when it cannot be read
BlocksOf(file) == IF file = Nothing THEN <<>> ELSE Get(file)

C13_Holds(mapping, blocks) ==
    /\ Len(mapping) = Len(blocks)
    /\ \A i \in DOMAIN mapping :
           /\ mapping[i].route_key = blocks[i].route_key
           /\ Len(mapping[i].route.trips) = 1
           /\ mapping[i].route.trips[1].stops[1].name = KoralTown

\* C13: load_all_routes returns a mapping (it raises nothing) that holds,
\* parsed, every route block of the file that is not malformed, and none of
\* the malformed ones.
C13_MalformedSkippedOthersLoaded ==
    returned # Nothing =>
        C13_Holds(Get(returned).mapping,
                  SelectSeq(BlocksOf(schedule_file), WellFormedBlock))

\* a file whose second block of three is malformed gave the routes R1 and R3
C13_Witness ==
    /\ returned # Nothing
    /\ schedule_file # Nothing
    /\ Len(Get(schedule_file)) = 3
    /\ Malformed(Get(schedule_file)[2].lines)
    /\ Len(Get(returned).mapping) = 2
    /\ Get(returned).mapping[1].route_key = "R1"
    /\ Get(returned).mapping[2].route_key = "R3"

\* C14: once load_all_routes has been called, a later call returns the same
\* dict and does not open the file again.
C14_LaterLoadsReuse ==
    [][returned # Nothing =>
           /\ file_reads' = file_reads
           /\ returned' = returned]_vars

\* every route of the file that parses
CompleteMapping == load_all_routes(<<>>, schedule_file)

TagCount(line_code, tag) ==
    Cardinality({k \in DOMAIN line_code : line_code[k] = tag})

NoTagTwice ==
    \A i \in DOMAIN stations :
        \A tag \in {"GREEN", "BLUE"} :
            TagCount(stations[i].line_code, tag) <= 1

\* C17: merging is idempotent: a further load_stops leaves every station's
\* line_code and is_interchange as they were, and at no time does a line tag
\* occur more than once in a station's line_code.
C17_MergeIdempotent ==
    /\ []NoTagTwice
    /\ [][\A i \in DOMAIN stations :
              /\ stations'[i].line_code = stations[i].line_code
              /\ stations'[i].is_interchange = stations[i].is_interchange]_vars

\* the stop names of the trips
StopNames(trips) ==
    UNION {{trips[t].stops[s].name : s \in DOMAIN trips[t].stops} :
              t \in DOMAIN trips}

\* the stop names of the Green Line routes of the schedule
GreenNames ==
    IF schedule_file = Nothing THEN {}
    ELSE UNION {StopNames(extract_trips_from_lines(
                              Get(schedule_file)[i].lines)) :
                   i \in {k \in DOMAIN Get(schedule_file) :
                              startswith(Get(schedule_file)[k].route_key,
                                         FRG)}}

\* the names of the Blue Line records
BlueNames ==
    IF blue_records = Nothing THEN {}
    ELSE {Get(blue_records)[i].sta_name : i \in DOMAIN Get(blue_records)}

\* C18: a name that both the Green and the Blue source records hold is held
\* as one station that is an interchange and whose line_code has the tag
\* GREEN once and the tag BLUE once.
C18_BothLinesOneInterchange ==
    \A name \in GreenNames \cap BlueNames :
        /\ Cardinality({i \in DOMAIN stations : stations[i].name = name}) = 1
        /\ \A i \in DOMAIN stations :
               stations[i].name = name =>
                   /\ stations[i].is_interchange
                   /\ TagCount(stations[i].line_code, "GREEN") = 1
                   /\ TagCount(stations[i].line_code, "BLUE") = 1

BeginsWith(name, prefix) ==
    /\ Len(name) >= Len(prefix)
    /\ \A i \in DOMAIN prefix : name[i] = prefix[i]

\* C19: _classify_route_line gives every short name one line: GREEN when it
\* begins with 'FRG-', BLUE when it begins with 'FR-', UNKNOWN otherwise, in
\* other letter case too; the call leaves the cache and the directory alone.
C19_ClassifyTotal ==
    returned # Nothing =>
        /\ BeginsWith(argument, <<"F","R","G","-">>)
               => Get(returned) = "GREEN"
        /\ BeginsWith(argument, <<"F","R","-">>) => Get(returned) = "BLUE"
        /\ (/\ ~BeginsWith(argument, <<"F","R","G","-">>)
            /\ ~BeginsWith(argument, <<"F","R","-">>))
               => Get(returned) = "UNKNOWN"
        /\ Get(returned) \in {"GREEN", "BLUE", "UNKNOWN"}
        /\ routes_cache = <<>>
        /\ stations = <<>>

\* 'frg-1' was classified UNKNOWN
C19_Witness ==
    /\ argument = <<"f","r","g","-","1">>
    /\ returned = Some("UNKNOWN")

\* a time of day without seconds
WholeMinute(t) == t % 60 = 0

\* C20: minutes_forward(a, b) is in 0..1439 and 0 when a = b; for whole
\* minutes it is (b - a) mod 1440; 23:58:00 to 00:02:00 is 4 and 00:02:00 to
\* 23:58:00 is 1436.
C20_MinutesForwardWraps ==
    returned # Nothing =>
        /\ Get(returned) \in 0..1439
        /\ argument[1] = argument[2] => Get(returned) = 0
        /\ (WholeMinute(argument[1]) /\ WholeMinute(argument[2])) =>
               Get(returned)
                   = ((argument[2] \div 60) - (argument[1] \div 60)) % 1440
        /\ argument = <<Time(23, 58, 0), Time(0, 2, 0)>> => Get(returned) = 4
        /\ argument = <<Time(0, 2, 0), Time(23, 58, 0)>>
               => Get(returned) = 1436

\* the minutes from 23:58:00 forward to 00:02:00 were counted
C20_Witness ==
    /\ argument = <<Time(23, 58, 0), Time(0, 2, 0)>>
    /\ returned = Some(4)

\* C21: circular_abs_minutes(t1, t2) is the smaller of the forward minutes
\* from t1 to t2 and from t2 to t1; it is the same for (t2, t1), never more
\* than 720, and 4 for 23:58:00 and 00:02:00.
C21_CircularIsSmallerForward ==
    returned # Nothing =>
        /\ Get(returned) = CircularMinutes(argument[1], argument[2])
        /\ Get(returned) = circular_abs_minutes(argument[2], argument[1])
        /\ Get(returned) \in 0..720
        /\ argument \in {<<Time(23, 58, 0), Time(0, 2, 0)>>,
                         <<Time(0, 2, 0), Time(23, 58, 0)>>}
               => Get(returned) = 4

\* the distance of 00:02:00 from 23:58:00, whose forward minutes are 1436
C21_Witness ==
    /\ argument = <<Time(0, 2, 0), Time(23, 58, 0)>>
    /\ returned = Some(4)

\* C22: every RoutePlan plan_route returns has exactly one segment; its
\* total_wait_time is 0 when the request has no preferred_time and otherwise
\* the circular 24-hour distance between preferred_time and the segment's
\* departure time; its total_duration is the segment's duration_minutes plus
\* total_wait_time; it has exactly four instructions.
C22_OneSegmentPlan ==
    Called =>
        \A j \in DOMAIN result :
            /\ Len(result[j].segments) = 1
            /\ result[j].total_wait_time =
                   IF Get(request).preferred_time = Nothing THEN 0
                   ELSE CircularMinutes(
                            Get(Get(request).preferred_time),
                            result[j].segments[1].departure_time)
            /\ result[j].total_duration =
                   result[j].segments[1].duration_minutes
                       + result[j].total_wait_time
            /\ Len(result[j].instructions) = 4

\* preferred 08:00, the 07:55 departure of 20 minutes is returned: the wait
\* is 5 minutes (1435 going forward) and the plan lasts 25
C22_Witness ==
    /\ Called
    /\ Get(request).preferred_time = Some(Time(8, 0, 0))
    /\ Len(result) = 1
    /\ result[1].segments[1].departure_time = Time(7, 55, 0)
    /\ result[1].segments[1].duration_minutes = 20
    /\ result[1].total_wait_time = 5
    /\ result[1].total_duration = 25

\* the stop names a listing or a search of the last call ranges over: the
\* directory's stations of the line, or the stops of the schedule's routes
\* of the line
DirectoryNames(line) ==
    {stations[i].name :
        i \in {k \in DOMAIN stations :
                   line = None \/ line \in Range(stations[k].line_code)}}

ScheduleStops(line) ==
    UNION {stop_names(routes_cache[i].route) :
              i \in {k \in DOMAIN routes_cache :
                         \/ line = None
                         \/ _classify_route_line(
                                routes_cache[k].route.short_name) = line}}

NamesOfCall ==
    IF argument[1] \in {"stops_db.get_all_stops", "stops_db.search_stops"}
    THEN DirectoryNames(argument[3])
    ELSE ScheduleStops(argument[3])

C23_Holds(found, names, query) ==
    LET exact == {x \in names : lower(x) = lower(query)}
        partial == {x \in names : contains(lower(x), lower(query))} \ exact
    IN  /\ Len(found) = Cardinality(exact) + Min(10, Cardinality(partial))
        /\ {found[i] : i \in 1..Cardinality(exact)} = exact
        /\ \A i \in (Cardinality(exact) + 1)..Len(found) : found[i] \in partial
        /\ \A i, j \in DOMAIN found : i # j => found[i] # found[j]

\* C23: search_stops (of the directory, the parser and the planner) returns
\* every name that equals the query but for letter case first, then names
\* that hold the query as a substring but for letter case and are not exact
\* matches: all of them when there are at most 10, else 10 of them; no name
\* is returned twice.
C23_ExactThenTenPartial ==
    (returned # Nothing /\ argument[2] # Nothing) =>
        C23_Holds(Get(returned), NamesOfCall, Get(argument[2]))

\* 'Saddar' in a directory of 14 stations: SADDAR and Saddar match exactly,
\* eleven names hold it, ten of them are returned
C23_Witness ==
    /\ returned # Nothing
    /\ argument = <<"stops_db.search_stops", Some(Saddar), None>>
    /\ Len(stations) = 14
    /\ Len(Get(returned)) = 12
    /\ lower(Get(returned)[1]) = lower(Saddar)
    /\ lower(Get(returned)[2]) = lower(Saddar)

\* C24: get_all_stops of the directory, of the parser and of the planner,
\* with or without a line, returns every stop name of the line exactly once
\* and in ascending order.
C24_SortedOnce ==
    (returned # Nothing /\ argument[2] = Nothing) =>
        /\ Range(Get(returned)) = NamesOfCall
        /\ \A i \in 1..(Len(Get(returned)) - 1) :
               str_less(Get(returned)[i], Get(returned)[i + 1])

\* the keys and the values of the alias table
AliasKeys ==
    {blue_line_stop_mapping[i][1] : i \in DOMAIN blue_line_stop_mapping}

AliasValues ==
    {blue_line_stop_mapping[i][2] : i \in DOMAIN blue_line_stop_mapping}

\* the value the table gives key, the key it gives for value
AliasOf(key) ==
    blue_line_stop_mapping[
        CHOOSE i \in DOMAIN blue_line_stop_mapping :
            blue_line_stop_mapping[i][1] = key][2]

KeyOf(value) ==
    blue_line_stop_mapping[
        CHOOSE i \in DOMAIN blue_line_stop_mapping :
            blue_line_stop_mapping[i][2] = value][1]

C25_CallHolds(call) ==
    IF call.function = "map_stop_name_for_routes"
    THEN call.returned =
             IF call.line_code = "BLUE" /\ call.stop_name \in AliasKeys
             THEN AliasOf(call.stop_name) ELSE call.stop_name
    ELSE call.returned =
             IF call.line_code = "BLUE" /\ call.stop_name \in AliasValues
             THEN KeyOf(call.stop_name) ELSE call.stop_name

\* a call for the Blue line that maps what the call before it, of the
\* other function and for the Blue line, returned
C25_RoundTrip(first, second) ==
    /\ first.line_code = "BLUE"
    /\ second.line_code = "BLUE"
    /\ first.function # second.function
    /\ first.stop_name \in
           IF first.function = "map_stop_name_for_routes"
           THEN AliasKeys ELSE AliasValues

\* C25: map_stop_name_for_routes returns its argument unless the line is
\* BLUE and the name is a key of the alias table, and then the key's value;
\* map_stop_name_for_display likewise with the reverse table; mapping a key
\* for routes and the result for display gives the key, mapping a value for
\* display and the result for routes gives the value.
C25_AliasTablesInverse ==
    /\ \A n \in DOMAIN argument : C25_CallHolds(argument[n])
    /\ \A n \in 1..(Len(argument) - 1) :
           C25_RoundTrip(argument[n], argument[n + 1])
               => argument[n + 1].returned = argument[n].stop_name

\* 'PIMS GATE' mapped for routes gives 'PIMS Hospital', which mapped for
\* display gives 'PIMS GATE' again
C25_Witness ==
    /\ Len(argument) = 2
    /\ argument[1].function = "map_stop_name_for_routes"
    /\ argument[1].line_code = "BLUE"
    /\ argument[1].stop_name = <<"P","I","M","S"," ","G","A","T","E">>
    /\ argument[1].returned
           = <<"P","I","M","S"," ","H","o","s","p","i","t","a","l">>
    /\ argument[2].function = "map_stop_name_for_display"
    /\ argument[2].line_code = "BLUE"
    /\ argument[2].returned = <<"P","I","M","S"," ","G","A","T","E">>

\* (forward minutes from 06:00 to the origin departure, journey duration)
DefaultPair(trip, req) ==
    <<ForwardMinutes(Time(6, 0, 0),
                     OriginStop(trip, req.origin).departure_time),
      ForwardMinutes(
          OriginStop(trip, req.origin).departure_time,
          DestinationStop(trip, req.origin, req.destination).arrival_time)>>

\* the trips of a route in which origin precedes destination
Qualifying(route, req) ==
    {t \in DOMAIN route.trips :
        Precedes(route.trips[t], req.origin, req.destination)}

C26_RouteHolds(item, req, qualifying) ==
    IF qualifying = {}
    THEN \A j \in DOMAIN result : result_keys[j] # item.route_key
    ELSE \E j \in DOMAIN result :
            /\ result_keys[j] = item.route_key
            /\ \E t \in qualifying :
                  /\ SegmentOfTrip(result[j].segments[1],
                                   item.route.trips[t], req)
                  /\ \A u \in qualifying :
                         LexLeq(DefaultPair(item.route.trips[t], req),
                                DefaultPair(item.route.trips[u], req))

\* C26: without a preferred_time, the trip find_best_trip returns for a
\* route is, among the route's trips in which origin precedes destination,
\* one whose pair (forward minutes from 06:00 to the origin departure,
\* journey duration) is lexicographically minimal; a 06:00 departure comes
\* before a 05:59 departure.
C26_EarliestAfterSix ==
    (Called /\ Get(request).preferred_time = Nothing) =>
        \A i \in DOMAIN routes_cache :
            C26_RouteHolds(routes_cache[i], Get(request),
                           Qualifying(routes_cache[i].route, Get(request)))

\* a 05:59 departure, then a 06:00 departure; the 06:00 trip is returned
C26_Witness ==
    /\ Called
    /\ Get(request).preferred_time = Nothing
    /\ Len(routes_cache[1].route.trips) = 2
    /\ Qualifying(routes_cache[1].route, Get(request)) = {1, 2}
    /\ routes_cache[1].route.trips[1].stops[1].departure_time = Time(5, 59, 0)
    /\ routes_cache[1].route.trips[2].stops[1].departure_time = Time(6, 0, 0)
    /\ Len(result) = 1
    /\ result[1].segments[1].departure_time = Time(6, 0, 0)
    /\ result[1].segments[1].trip_id = routes_cache[1].route.trips[2].trip_id

\* the score of a trip under the request
ScorePair(trip, req) ==
    IF req.preferred_time = Nothing
    THEN DefaultPair(trip, req) ELSE TripPair(trip, req)

C27_RouteHolds(route, req, segment) ==
    \A t \in Qualifying(route, req) :
        segment.trip_id = route.trips[t].trip_id =>
            \A u \in Qualifying(route, req) :
                /\ u < t => /\ LexLeq(ScorePair(route.trips[t], req),
                                       ScorePair(route.trips[u], req))
                            /\ ScorePair(route.trips[t], req)
                                   # ScorePair(route.trips[u], req)
                /\ u > t => LexLeq(ScorePair(route.trips[t], req),
                                   ScorePair(route.trips[u], req))

\* C27: the trip find_best_trip returns scores strictly lower than every
\* qualifying trip before it in the route's trip order and no higher than
\* every qualifying trip after it: among trips of equal score the first is
\* returned.
C27_FirstOfEqualScore ==
    Called =>
        \A j \in DOMAIN result :
            \A i \in DOMAIN routes_cache :
                routes_cache[i].route_key = result_keys[j] =>
                    C27_RouteHolds(routes_cache[i].route, Get(request),
                                   result[j].segments[1])

\* preferred 06:05; a 06:10 and then a 06:00 departure of equal duration
\* both score (5, 15); the 06:10 trip, the first, is returned
C27_Witness ==
    /\ Called
    /\ Get(request).preferred_time = Some(Time(6, 5, 0))
    /\ Len(routes_cache[1].route.trips) = 2
    /\ Qualifying(routes_cache[1].route, Get(request)) = {1, 2}
    /\ routes_cache[1].route.trips[1].stops[1].departure_time = Time(6, 10, 0)
    /\ routes_cache[1].route.trips[2].stops[1].departure_time = Time(6, 0, 0)
    /\ ScorePair(routes_cache[1].route.trips[1], Get(request)) = <<5, 15>>
    /\ ScorePair(routes_cache[1].route.trips[2], Get(request)) = <<5, 15>>
    /\ Len(result) = 1
    /\ result[1].segments[1].trip_id = routes_cache[1].route.trips[1].trip_id
    /\ result[1].segments[1].departure_time = Time(6, 10, 0)

\* the positions of the boundary lines of a block, in order
Boundaries(lines) ==
    SelectSeq([i \in DOMAIN lines |-> i], LAMBDA i : lines[i] \in BoundaryLines)

\* a stop record stands between boundary b and the next boundary or the end
HasStopRecord(lines, b) ==
    \E i \in (b + 1)..Len(lines) :
        /\ lines[i] = KoralTownLine
        /\ \A j \in (b + 1)..i : lines[j] \notin BoundaryLines

\* the trip id a boundary line carries
BoundaryId(line) == SubSeq(line, 1, 5)

C28_Holds(lines, trips, kept) ==
    /\ Len(trips) = Len(kept)
    /\ \A k \in DOMAIN trips :
           /\ trips[k].stops # <<>>
           /\ trips[k].trip_id = BoundaryId(lines[kept[k]])

\* C28: extract_trips_from_lines stores a trip for a boundary line exactly
\* when an accepted stop record follows it before the next boundary line or
\* the end of the block, so no stored trip has an empty stop list; the
\* stored trips are in the order of their boundary lines.
C28_NoEmptyTripInOrder ==
    returned # Nothing =>
        C28_Holds(argument, Get(returned),
                  SelectSeq(Boundaries(argument),
                            LAMBDA b : HasStopRecord(argument, b)))

\* trip 101-1 with a stop, then the boundary line of 101-2 at the end of the
\* block: 101-1 alone is stored
C28_Witness ==
    /\ argument = <<TripStartLine, KoralTownLine, SecondTripStartLine>>
    /\ returned # Nothing
    /\ Len(Get(returned)) = 1
    /\ Get(returned)[1].trip_id = <<"1","0","1","-","1">>
    /\ Len(Get(returned)[1].stops) = 1

\* the segment is a ride on trip from a stop named as origin to a later stop
\* named as destination
C29_RideOn(segment, trip, req) ==
    /\ trip.trip_id = segment.trip_id
    /\ \E a, b \in DOMAIN trip.stops :
           /\ trip.stops[a].name = segment.start_stop
           /\ trip.stops[b].name = segment.end_stop
           /\ trip.stops[a].sequence < trip.stops[b].sequence
           /\ segment.departure_time = trip.stops[a].departure_time
           /\ segment.arrival_time = trip.stops[b].arrival_time

\* C29: the segment of every RoutePlan plan_route returns names, by
\* route_name and trip_id, a trip of a route of the schedule that calls at
\* start_stop before end_stop; start_stop equals the requested origin and
\* end_stop the requested destination but for letter case; departure_time
\* and arrival_time are those of the two stops and duration_minutes is the
\* forward minutes from the one to the other, between 0 and 1439.
C29_SegmentIsARide ==
    Called =>
        \A j \in DOMAIN result :
            /\ lower(result[j].segments[1].start_stop)
                   = lower(Get(request).origin)
            /\ lower(result[j].segments[1].end_stop)
                   = lower(Get(request).destination)
            /\ result[j].segments[1].duration_minutes
                   = ForwardMinutes(result[j].segments[1].departure_time,
                                    result[j].segments[1].arrival_time)
            /\ result[j].segments[1].duration_minutes \in 0..1439
            /\ \E i \in DOMAIN routes_cache :
                   /\ routes_cache[i].route.short_name
                          = result[j].segments[1].route_name
                   /\ \E t \in DOMAIN routes_cache[i].route.trips :
                          C29_RideOn(result[j].segments[1],
                                     routes_cache[i].route.trips[t],
                                     Get(request))

\* a ride to 'GANGAL' that leaves Koral Town at 23:59 and reaches Gangal
\* after midnight
C29_Witness ==
    /\ Called
    /\ Get(request).destination = GANGAL
    /\ Len(result) = 1
    /\ result[1].segments[1].end_stop = Gangal
    /\ result[1].segments[1].departure_time = Time(23, 59, 0)
    /\ result[1].segments[1].arrival_time = Time(0, 14, 0)
    /\ result[1].segments[1].duration_minutes = 15

\* C30: every name the directory holds as a Green station is the whole stop
\* name the parser reads from a line of a Green route block (the tokens
\* before the two times): the directory holds no Green name that is not
\* the stop name of some trip.
C30_GreenNamesAreStopNames ==
    \A i \in DOMAIN stations :
        "GREEN" \in Range(stations[i].line_code)
            => stations[i].name \in GreenNames

=============================================================================
